---- MODULE Spec2Model ----
(***************************************************************************)
(* A model of the melsec_mc client core: the frame codec (mc_frame.rs,     *)
(* request.rs), the TCP and UDP transports (transport.rs), the serial      *)
(* counter (request.rs) and the client facade with its retry loop          *)
(* (mc_client.rs).                                                         *)
(*                                                                         *)
(* The module holds several specifications over one set of variables; a    *)
(* specification leaves the variables of the other parts at their initial  *)
(* value:                                                                  *)
(*   SpecStream  perform_stream_io, byte by byte, on one TCP stream        *)
(*   SpecStreamLive  the same reader against a peer that keeps sending     *)
(*   SpecPool    concurrent send_and_recv_tcp calls on the connection pool *)
(*   SpecUdp     send_and_recv_udp on one bound socket                     *)
(*   SpecClient  a client operation: build, retry loop, parse, end code    *)
(*   SpecSerial  concurrent McRequest::new() calls on SERIAL_COUNTER       *)
(*   SpecBuild   a McRequest assembled by its builder methods and built    *)
(*   SpecRegistry threads that set the registries and merge error codes   *)
(*   SpecDevice  a device address written in its radix and parsed         *)
(*   SpecCodec   build_request and parse_response of a command spec         *)
(*   SpecEcho    McClient::echo from its checks to its result               *)
(*   SpecFrame   parse_frame on whole and truncated extended frames        *)
(***************************************************************************)
EXTENDS Integers, Sequences, FiniteSets, TLC

VARIABLES
    \* perform_stream_io (transport.rs 43-123)
    sio_pc, payload, wire, buf, sio_result, sio_log,
    \* send_and_recv_tcp and the pool (transport.rs 31, 133-221)
    pc, target, mu, cached, addrs, conn_map, mutexes, map_lock, now, next_conn, ret,
    calls_left,
    \* send_and_recv_udp (transport.rs 229-328)
    udp_pc, udp_payload, net, udp_buf_len, remotes, attempt, sends, udp_result, udp_log,
    \* a client operation (mc_client.rs 286-321, 586-640)
    cl_pc, cl, cl_log, cl_result,
    \* SERIAL_COUNTER and McRequest::new (request.rs 8-28, 62-72)
    SERIAL_COUNTER, ser_prior, ser_pc, ser_v, issued,
    \* a McRequest under its builder methods, built and read back (request.rs 62-182)
    rq_pc, rq, rq_log, rq_frame, rq_back,
    \* the set-once registries and the error catalog (command_registry.rs 144, device_registry.rs 43, error_codes.rs 262)
    GLOBAL_COMMAND_REGISTRY, DEVICE_OVERRIDES, ERROR_REGISTRY, th, reg_log, set_log, err_applied,
    \* a device address written and parsed (device.rs 162-213)
    dev_pc, dev_in, dev_text, dev_out,
    \* a request built and a response parsed by a command spec
    cd_pc, cd_spec, cd_params, cd_series, cd_req, cd_bytes, cd_resp,
    \* McClient::echo: validation, frame, transport, response
    ec_pc, ec, ec_log, ec_result,
    \* an extended frame handed to parse_frame (mc_frame.rs 78-127)
    fr_pc, fr_payload, fr_result

sioVars == <<sio_pc, payload, wire, buf, sio_result, sio_log>>
poolVars ==
    <<pc, target, mu, cached, addrs, conn_map, mutexes, map_lock, now, next_conn, ret,
      calls_left>>
udpVars ==
    <<udp_pc, udp_payload, net, udp_buf_len, remotes, attempt, sends, udp_result, udp_log>>
clVars == <<cl_pc, cl, cl_log, cl_result>>
serVars == <<SERIAL_COUNTER, ser_prior, ser_pc, ser_v, issued>>
rqVars == <<rq_pc, rq, rq_log, rq_frame, rq_back>>
regVars == <<GLOBAL_COMMAND_REGISTRY, DEVICE_OVERRIDES, ERROR_REGISTRY, th, reg_log, set_log, err_applied>>
devVars == <<dev_pc, dev_in, dev_text, dev_out>>
cdVars == <<cd_pc, cd_spec, cd_params, cd_series, cd_req, cd_bytes, cd_resp>>
ecVars == <<ec_pc, ec, ec_log, ec_result>>
frVars == <<fr_pc, fr_payload, fr_result>>
vars == <<sioVars, poolVars, udpVars, clVars, serVars, rqVars, regVars, devVars, cdVars, ecVars, frVars>>

----------------------------------------------------------------------------
(* Bytes and options *)

\* u16::from_le_bytes([lo, hi])
from_le_bytes(lo, hi) == lo + 256 * hi

\* u16::to_le_bytes and u16::to_be_bytes
to_le_bytes(x) == <<x % 256, x \div 256>>
to_be_bytes(x) == <<x \div 256, x % 256>>

\* Option<T>: None is the empty sequence, Some(v) the one-element sequence
None == <<>>
Some(v) == <<v>>
unwrap_or(o, d) == IF o = None THEN d ELSE o[1]

Min(a, b) == IF a <= b THEN a ELSE b

\* buf.drain(..n): the buffer without its first n bytes
drain(b, n) == SubSeq(b, n + 1, Len(b))

\* &b[from..to] with 0-based, end-exclusive Rust indices
slice(b, from, to) == SubSeq(b, from + 1, to)

----------------------------------------------------------------------------
(* mc_define.rs *)

MC_SUBHEADER_REQUEST == <<84, 0>>       \* 0x54 0x00
MC_SUBHEADER_RESPONSE == <<212, 0>>     \* 0xD4 0x00

\* AccessRoute::default(): network 0x00, pc 0xFF, io 0x03FF, station 0x00
AccessRouteDefault ==
    [network_number |-> 0, pc_number |-> 255, io_number |-> 1023, station_number |-> 0]

\* AccessRoute::to_bytes
AccessRoute_to_bytes(ar) ==
    <<ar.network_number, ar.pc_number>> \o to_le_bytes(ar.io_number) \o <<ar.station_number>>

----------------------------------------------------------------------------
(* mc_frame.rs *)

DetectNone == [kind |-> "none"]
DetectErr == [kind |-> "err"]
DetectSome(frame_len, header_len, serial) ==
    [kind |-> "frame", frame_len |-> frame_len, header_len |-> header_len, serial |-> serial]

\* the first byte is one of the two known subheaders and 15 bytes are there
IsMc4eHeader(b) ==
    Len(b) >= 15 /\ (b[1] = MC_SUBHEADER_REQUEST[1] \/ b[1] = MC_SUBHEADER_RESPONSE[1])

detect_frame(b) ==
    IF Len(b) < 2 THEN DetectNone
    ELSE IF IsMc4eHeader(b)
    THEN LET data_len == from_le_bytes(b[12], b[13]) IN
         IF data_len < 2 THEN DetectErr
         ELSE DetectSome(15 + (data_len - 2), 15, Some(from_le_bytes(b[3], b[4])))
    ELSE IF Len(b) >= 11 /\ from_le_bytes(b[8], b[9]) >= 2
    THEN DetectSome(11 + (from_le_bytes(b[8], b[9]) - 2), 11, None)
    ELSE IF Len(b) >= 9 /\ from_le_bytes(b[6], b[7]) >= 2
    THEN DetectSome(9 + (from_le_bytes(b[6], b[7]) - 2), 9, None)
    ELSE DetectNone

ParseErr(msg) == [ok |-> FALSE, err |-> msg]

\* the truncation test of parse_frame: payload.len() >= header_len || end_code == 0
TruncationAccepted(p, header_len, end_code_val) == Len(p) >= header_len \/ end_code_val = 0

parse_frame(p) ==
    IF Len(p) < 2 THEN ParseErr("payload too short")
    ELSE IF IsMc4eHeader(p)
    THEN LET data_len_bytes == from_le_bytes(p[12], p[13])
             end_code_val == from_le_bytes(p[14], p[15]) IN
         IF data_len_bytes < 2 THEN ParseErr("MC4E invalid data_len")
         ELSE IF TruncationAccepted(p, 15, end_code_val)
         THEN [ok |-> TRUE, subheader |-> <<p[1], p[2]>>, access_route |-> slice(p, 6, 11),
               request_data_len |-> data_len_bytes, data_offset |-> 15,
               data_bytes |-> data_len_bytes - 2, has_end_code |-> TRUE,
               end_code |-> Some(end_code_val), monitor_timer |-> None,
               serial_number |-> Some(from_le_bytes(p[3], p[4]))]
         ELSE ParseErr("MC4E payload length mismatch")
    ELSE IF Len(p) >= 11 /\ from_le_bytes(p[8], p[9]) >= 2
            /\ TruncationAccepted(p, 11, from_le_bytes(p[10], p[11]))
    THEN [ok |-> TRUE, subheader |-> <<p[1], p[2]>>, access_route |-> slice(p, 2, 7),
          request_data_len |-> from_le_bytes(p[8], p[9]), data_offset |-> 11,
          data_bytes |-> from_le_bytes(p[8], p[9]) - 2, has_end_code |-> FALSE,
          end_code |-> None, monitor_timer |-> Some(from_le_bytes(p[10], p[11])),
          serial_number |-> None]
    ELSE IF Len(p) >= 9 /\ from_le_bytes(p[6], p[7]) >= 2
            /\ TruncationAccepted(p, 9, from_le_bytes(p[8], p[9]))
    THEN [ok |-> TRUE, subheader |-> <<208, 0>>, access_route |-> slice(p, 0, 5),
          request_data_len |-> from_le_bytes(p[6], p[7]), data_offset |-> 9,
          data_bytes |-> from_le_bytes(p[6], p[7]) - 2, has_end_code |-> TRUE,
          end_code |-> Some(from_le_bytes(p[8], p[9])), monitor_timer |-> None,
          serial_number |-> None]
    ELSE IF Len(p) - 2 > 65535 THEN ParseErr("data_len too large")
    ELSE [ok |-> TRUE, subheader |-> <<p[1], p[2]>>, access_route |-> <<0, 0, 0, 0, 0>>,
          request_data_len |-> Len(p) - 2, data_offset |-> 2, data_bytes |-> Len(p) - 2,
          has_end_code |-> FALSE, end_code |-> None, monitor_timer |-> None,
          serial_number |-> None]

----------------------------------------------------------------------------
(* response.rs *)

\* parse_mc_payload / McResponse::try_new
parse_mc_payload(p) ==
    LET pr == parse_frame(p) IN
    IF ~pr.ok THEN pr
    ELSE [ok |-> TRUE, subheader |-> pr.subheader, access_route |-> pr.access_route,
          request_data_len |-> pr.request_data_len,
          data |-> IF Len(p) >= pr.data_offset
                   THEN slice(p, pr.data_offset, Min(Len(p), pr.data_offset + pr.data_bytes))
                   ELSE <<>>,
          end_code |-> pr.end_code, has_end_code |-> pr.has_end_code,
          serial_number |-> pr.serial_number]

----------------------------------------------------------------------------
(* request.rs: McRequest and its builders *)

\* McRequest::new() but for the serial, which next_serial() issues
McRequest_new(serial) ==
    [subheader |-> MC_SUBHEADER_REQUEST, access_route |-> AccessRouteDefault,
     request_data_len |-> 0, monitoring_timer |-> 4096, request_data |-> <<>>,
     serial_number |-> serial]

with_access_route(r, ar) == [r EXCEPT !.access_route = ar]
with_serial_number(r, s) == [r EXCEPT !.serial_number = s]

RequestDataFitsAlways(n) == TRUE

\* try_with_request_data on a body of n bytes: the length must fit a u16
RequestDataFits(n) == n + 2 <= 65535

try_with_request_data(r, data) ==
    [r EXCEPT !.request_data_len = Len(data) + 2, !.request_data = data]

MC4E == "MC4E"
MC3E == "MC3E"

\* AccessRoute from the five bytes parse_frame returns
AccessRoute_from_bytes(b) ==
    [network_number |-> b[1], pc_number |-> b[2], io_number |-> from_le_bytes(b[3], b[4]),
     station_number |-> b[5]]

\* McRequest::try_from_payload: parse_frame, then the data slice and the defaults for
\* what the frame does not carry
try_from_payload(p) ==
    LET pr == parse_frame(p) IN
    IF ~pr.ok THEN pr
    ELSE [ok |-> TRUE,
          subheader |-> pr.subheader,
          access_route |-> AccessRoute_from_bytes(pr.access_route),
          request_data_len |-> pr.request_data_len,
          monitoring_timer |-> unwrap_or(pr.monitor_timer, 4096),
          request_data |->
              IF Len(p) >= pr.data_offset
              THEN slice(p, pr.data_offset, Min(Len(p), pr.data_offset + pr.data_bytes))
              ELSE <<>>,
          serial_number |-> unwrap_or(pr.serial_number, 0)]

build_mc_payload_with_format(r, format) ==
    IF format = MC4E
    THEN r.subheader \o to_le_bytes(r.serial_number) \o to_le_bytes(0)
         \o AccessRoute_to_bytes(r.access_route) \o to_le_bytes(r.request_data_len)
         \o to_be_bytes(r.monitoring_timer) \o r.request_data
    ELSE r.subheader \o AccessRoute_to_bytes(r.access_route)
         \o to_le_bytes(r.request_data_len) \o to_le_bytes(r.monitoring_timer)
         \o r.request_data

----------------------------------------------------------------------------
(* The peer: response frames as the PLC lays them out (mc_frame.rs 84-186) *)

\* extended response: subheader D4 00, serial, reserved, route, length, end code, body
Mc4eResponse(serial, ar, end_code, data) ==
    MC_SUBHEADER_RESPONSE \o to_le_bytes(serial) \o <<0, 0>> \o AccessRoute_to_bytes(ar)
    \o to_le_bytes(Len(data) + 2) \o to_le_bytes(end_code) \o data

\* compact response; sub is the subheader D0 00, or empty for the variant without one
Mc3eResponse(sub, ar, end_code, data) ==
    sub \o AccessRoute_to_bytes(ar) \o to_le_bytes(Len(data) + 2) \o to_le_bytes(end_code)
    \o data

RouteZero == [network_number |-> 0, pc_number |-> 0, io_number |-> 0, station_number |-> 0]
RouteNet5 == [network_number |-> 5, pc_number |-> 0, io_number |-> 1023, station_number |-> 0]
RouteFF == [network_number |-> 255, pc_number |-> 255, io_number |-> 1023, station_number |-> 0]

Word1234 == <<52, 18>>                  \* the body 0x34 0x12

\* serials on the wire: the request's, and a stray one
SerialMine == 42
SerialStray == 6

GarbageBytes == {255, 212, 0}

Mc4eFrames ==
    {Mc4eResponse(SerialMine, AccessRouteDefault, 0, Word1234),
     Mc4eResponse(SerialMine, RouteZero, 0, <<>>),
     Mc4eResponse(SerialMine, RouteNet5, 0, <<>>),
     Mc4eResponse(SerialMine, RouteFF, 0, <<>>),
     Mc4eResponse(SerialStray, AccessRouteDefault, 0, <<>>),
     Mc4eResponse(SerialStray, RouteZero, 0, Word1234)}

Mc3eFrames ==
    {Mc3eResponse(<<208, 0>>, AccessRouteDefault, 0, Word1234),
     Mc3eResponse(<<>>, AccessRouteDefault, 0, Word1234)}

\* a bare extended header whose length field is len
Mc4eHeader(len) ==
    MC_SUBHEADER_RESPONSE \o to_le_bytes(SerialStray) \o <<0, 0>>
    \o AccessRoute_to_bytes(AccessRouteDefault) \o to_le_bytes(len) \o <<0, 0>>

\* headers that are no frame: a length under 2, and a length that passes MAX_FRAME_LEN
BadHeaders == {Mc4eHeader(1), Mc4eHeader(65535)}

\* what the peer may put on the stream: a garbage byte, a whole frame, a bad header
WireItems == {<<g>> : g \in GarbageBytes} \cup Mc4eFrames \cup Mc3eFrames \cup BadHeaders

\* the peer sends at most MaxItems items one after the other
MaxItems == 2

RECURSIVE WiresOf(_)
WiresOf(n) ==
    IF n = 0 THEN {<<>>}
    ELSE LET shorter == WiresOf(n - 1) IN
         shorter \cup {w \o i : w \in shorter, i \in WireItems}

\* the requests whose response is awaited
StreamPayloads ==
    {build_mc_payload_with_format(with_serial_number(McRequest_new(1), SerialMine), MC4E),
     build_mc_payload_with_format(with_serial_number(McRequest_new(1), 0), MC4E),
     build_mc_payload_with_format(McRequest_new(1), MC3E)}

----------------------------------------------------------------------------
(* transport.rs: perform_stream_io *)

MAX_FRAME_LEN == 65535

\* the expected serial: bytes 2..3 of the outgoing payload, little-endian
ExpectedSerial(p) == IF Len(p) >= 4 THEN from_le_bytes(p[3], p[4]) ELSE 0

SerialMatchesAny(expected_serial, serial) == TRUE

\* expected_serial == 0 || serial == expected_serial
SerialMatches(expected_serial, serial) == expected_serial = 0 \/ serial = expected_serial

notSio == <<poolVars, udpVars, clVars, serVars, rqVars, regVars, devVars, cdVars, ecVars, frVars>>

SioNoResult == [kind |-> "none"]
SioOk(frame, serial) == [kind |-> "ok", frame |-> frame, serial |-> serial]
SioErr(why) == [kind |-> "err", why |-> why]

SioLog0 == [delivered |-> <<>>, dropped_frames |-> 0, skipped_bytes |-> 0]

SioIdle ==
    /\ sio_pc = "idle" /\ payload = <<>> /\ wire = <<>> /\ buf = <<>>
    /\ sio_result = SioNoResult /\ sio_log = SioLog0

SioInit ==
    /\ sio_pc = "write"
    /\ payload \in StreamPayloads
    /\ wire \in WiresOf(MaxItems)
    /\ buf = <<>>
    /\ sio_result = SioNoResult
    /\ sio_log = SioLog0

\* stream.write_all(payload) under the optional timeout
SioWrite ==
    /\ sio_pc = "write"
    /\ \/ /\ sio_pc' = "read"
          /\ UNCHANGED sio_result
       \/ /\ \E why \in {"write error", "deadline has elapsed"} : sio_result' = SioErr(why)
          /\ sio_pc' = "done"
    /\ UNCHANGED <<payload, wire, buf, sio_log, notSio>>

\* stream.read(&mut tmp) returned n > 0 bytes, appended to buf
SioReadSome ==
    /\ sio_pc = "read"
    /\ \E n \in 1..Min(Len(wire), 4096) :
          /\ buf' = buf \o SubSeq(wire, 1, n)
          /\ wire' = drain(wire, n)
          /\ sio_log' = [sio_log EXCEPT !.delivered = @ \o SubSeq(wire, 1, n)]
    /\ sio_pc' = "scan"
    /\ UNCHANGED <<payload, sio_result, notSio>>

\* stream.read returned 0: the remote closed after sending everything
SioReadClosed ==
    /\ sio_pc = "read"
    /\ wire = <<>>
    /\ sio_result' = SioErr("remote closed without producing matching frame")
    /\ sio_pc' = "done"
    /\ UNCHANGED <<payload, wire, buf, sio_log, notSio>>

\* stream.read failed, or the timeout elapsed before any byte came
SioReadErr ==
    /\ sio_pc = "read"
    /\ \E why \in {"read error", "timeout"} : sio_result' = SioErr(why)
    /\ sio_pc' = "done"
    /\ UNCHANGED <<payload, wire, buf, sio_log, notSio>>

\* one turn of the inner loop: detect_frame on the buffer
SioScan ==
    /\ sio_pc = "scan"
    /\ LET d == detect_frame(buf) IN
       CASE d.kind = "frame" /\ (d.frame_len = 0 \/ d.frame_len > MAX_FRAME_LEN) ->
              /\ buf' = drain(buf, 1)
              /\ sio_log' = [sio_log EXCEPT !.skipped_bytes = @ + 1]
              /\ UNCHANGED <<sio_pc, sio_result>>
         [] d.kind = "frame" /\ d.frame_len <= MAX_FRAME_LEN /\ d.frame_len > 0
            /\ Len(buf) < d.frame_len ->
              /\ sio_pc' = "read"
              /\ UNCHANGED <<buf, sio_result, sio_log>>
         [] d.kind = "frame" /\ d.frame_len <= MAX_FRAME_LEN /\ d.frame_len > 0
            /\ Len(buf) >= d.frame_len
            /\ SerialMatches(ExpectedSerial(payload), unwrap_or(d.serial, 0)) ->
              /\ sio_result' = SioOk(SubSeq(buf, 1, d.frame_len), unwrap_or(d.serial, 0))
              /\ buf' = drain(buf, d.frame_len)
              /\ sio_pc' = "done"
              /\ UNCHANGED sio_log
         [] d.kind = "frame" /\ d.frame_len <= MAX_FRAME_LEN /\ d.frame_len > 0
            /\ Len(buf) >= d.frame_len
            /\ ~SerialMatches(ExpectedSerial(payload), unwrap_or(d.serial, 0)) ->
              /\ buf' = drain(buf, d.frame_len)
              /\ sio_log' = [sio_log EXCEPT !.dropped_frames = @ + 1]
              /\ UNCHANGED <<sio_pc, sio_result>>
         [] d.kind = "none" ->
              /\ sio_pc' = "read"
              /\ UNCHANGED <<buf, sio_result, sio_log>>
         [] d.kind = "err" ->
              /\ buf' = drain(buf, 1)
              /\ sio_log' = [sio_log EXCEPT !.skipped_bytes = @ + 1]
              /\ UNCHANGED <<sio_pc, sio_result>>
    /\ UNCHANGED <<payload, wire, notSio>>

\* frames a peer may go on sending that never carry the outgoing serial
StrayFrames ==
    {Mc4eResponse(SerialStray, RouteZero, 0, <<>>),
     Mc4eResponse(SerialStray, RouteZero, 0, Word1234)}

\* a peer that does not stop: while the reader waits in stream.read and all it sent has
\* been read, it sends one more stray frame; the log starts again with each frame sent
SioPeerSends ==
    /\ sio_pc = "read"
    /\ wire = <<>>
    /\ wire' \in StrayFrames
    /\ sio_log' = SioLog0
    /\ UNCHANGED <<payload, buf, sio_pc, sio_result, notSio>>

----------------------------------------------------------------------------
(* transport.rs: send_and_recv_tcp and the pool TARGET_CONNS *)

\* the tasks that call send_and_recv_tcp, and the "host:port" strings they name
NTasks == 2
Tasks == 1..NTasks
Targets == {"plc-a:5000", "plc-b:5000"}

\* calls made in a run, addresses a name resolves to, ticks of the clock
MaxCalls == 2
MaxAddrs == 1
MaxTime == 2

\* melsec_conn_idle_secs, in ticks of the model's clock
IdleSecs == 1

notPool == <<sioVars, udpVars, clVars, serVars, rqVars, regVars, devVars, cdVars, ecVars, frVars>>

\* a TokioMutex<Option<(TcpStream, Instant)>>: who holds it, and what the slot holds
NewMutex == [holder |-> 0, slot |-> None]

\* the slot of target t, as anyone looking it up in the map would find it
SlotOf(t, map, mtx) == IF map[t] = 0 THEN None ELSE mtx[map[t]].slot

\* what a call returned, with what the target's slot held at that instant: whether it
\* held a connection, and whether that one's last-used instant was the instant of return
Stamped(slot, at) == slot # None /\ slot[1].last_used = at
RetNone == [kind |-> "none"]
RetOk(slot, at) ==
    [kind |-> "ok", holds |-> slot # None, stamped |-> Stamped(slot, at),
     conn |-> slot[1].conn]
\* the variant every Err of send_and_recv_tcp is made with
MelsecError_Protocol(msg) == [variant |-> "Protocol", msg |-> msg]
RetErr(why, slot, at) ==
    [kind |-> "err", why |-> why, error |-> MelsecError_Protocol(why),
     holds |-> slot # None, stamped |-> Stamped(slot, at)]

PoolInit ==
    /\ pc = [p \in Tasks |-> "idle"]
    /\ target = [p \in Tasks |-> "plc-a:5000"]
    /\ mu = [p \in Tasks |-> 0]
    /\ cached = [p \in Tasks |-> 0]
    /\ addrs = [p \in Tasks |-> 0]
    /\ conn_map = [t \in Targets |-> 0]
    /\ mutexes = <<>>
    /\ map_lock = 0
    /\ now = 0
    /\ next_conn = 1
    /\ ret = [p \in Tasks |-> RetNone]
    /\ calls_left = MaxCalls

\* a task calls send_and_recv_tcp(addr, payload, timeout) and awaits lookup_host
Call(p) ==
    /\ pc[p] = "idle"
    /\ calls_left > 0
    /\ \E t \in Targets : target' = [target EXCEPT ![p] = t]
    /\ pc' = [pc EXCEPT ![p] = "resolve"]
    /\ ret' = [ret EXCEPT ![p] = RetNone]
    /\ calls_left' = calls_left - 1
    /\ UNCHANGED <<mu, cached, addrs, conn_map, mutexes, map_lock, now, next_conn, notPool>>

\* lookup_host(addr) answers with some addresses
ResolveOk(p) ==
    /\ pc[p] = "resolve"
    /\ \E n \in 1..MaxAddrs : addrs' = [addrs EXCEPT ![p] = n]
    /\ pc' = [pc EXCEPT ![p] = "map_lock"]
    /\ UNCHANGED <<target, mu, cached, conn_map, mutexes, map_lock, now, next_conn, ret,
                   calls_left, notPool>>

\* lookup_host(addr) fails: the call returns "bad address" at once
ResolveErr(p) ==
    /\ pc[p] = "resolve"
    /\ pc' = [pc EXCEPT ![p] = "idle"]
    /\ ret' = [ret EXCEPT ![p] =
                  RetErr("bad address", SlotOf(target[p], conn_map, mutexes), now)]
    /\ UNCHANGED <<target, mu, cached, addrs, conn_map, mutexes, map_lock, now, next_conn,
                   calls_left, notPool>>

\* TARGET_CONNS.lock().await is granted
MapLock(p) ==
    /\ pc[p] = "map_lock"
    /\ map_lock = 0
    /\ map_lock' = p
    /\ pc' = [pc EXCEPT ![p] = "in_map"]
    /\ UNCHANGED <<target, mu, cached, addrs, conn_map, mutexes, now, next_conn, ret,
                   calls_left, notPool>>

entry_insert_always(map, t, fresh) == fresh

\* map.entry(addr).or_insert_with(...): the mutex already there, or a fresh one
entry_or_insert_with(map, t, fresh) == IF map[t] # 0 THEN map[t] ELSE fresh

MapLookupKeepsLock(p) ==
    /\ pc[p] = "in_map"
    /\ map_lock = p
    /\ LET m == entry_or_insert_with(conn_map, target[p], Len(mutexes) + 1) IN
          /\ conn_map' = [conn_map EXCEPT ![target[p]] = m]
          /\ mutexes' = IF m > Len(mutexes) THEN Append(mutexes, NewMutex) ELSE mutexes
          /\ mu' = [mu EXCEPT ![p] = m]
    /\ pc' = [pc EXCEPT ![p] = "slot_lock"]
    /\ UNCHANGED <<map_lock, target, cached, addrs, now, next_conn, ret, calls_left, notPool>>

\* the block that holds the map guard: find or make the target's mutex, clone the Arc,
\* and drop the guard at the end of the block
MapLookup(p) ==
    /\ pc[p] = "in_map"
    /\ map_lock = p
    /\ LET m == entry_or_insert_with(conn_map, target[p], Len(mutexes) + 1) IN
          /\ conn_map' = [conn_map EXCEPT ![target[p]] = m]
          /\ mutexes' = IF m > Len(mutexes) THEN Append(mutexes, NewMutex) ELSE mutexes
          /\ mu' = [mu EXCEPT ![p] = m]
    /\ map_lock' = 0
    /\ pc' = [pc EXCEPT ![p] = "slot_lock"]
    /\ UNCHANGED <<target, cached, addrs, now, next_conn, ret, calls_left, notPool>>

FreshEnoughAlways(last_used, t) == TRUE

\* last_used.elapsed() <= idle_duration
FreshEnough(last_used, t) == t - last_used <= IdleSecs

\* conn_mutex.lock().await is granted, and conn_guard.take() empties the slot: a
\* connection idle no longer than the window is tried, an older one is dropped
LockSlot(p) ==
    /\ pc[p] = "slot_lock"
    /\ mutexes[mu[p]].holder = 0
    /\ LET slot == mutexes[mu[p]].slot IN
          /\ mutexes' = [mutexes EXCEPT ![mu[p]] = [holder |-> p, slot |-> None]]
          /\ IF slot # None /\ FreshEnough(slot[1].last_used, now)
             THEN /\ cached' = [cached EXCEPT ![p] = slot[1].conn]
                  /\ pc' = [pc EXCEPT ![p] = "reuse_io"]
             ELSE /\ cached' = [cached EXCEPT ![p] = 0]
                  /\ pc' = [pc EXCEPT ![p] = "connect"]
    /\ UNCHANGED <<target, mu, addrs, conn_map, map_lock, now, next_conn, ret, calls_left,
                   notPool>>

\* the guard is dropped as the call returns r
Return(p, r, slot) ==
    /\ mutexes' = [mutexes EXCEPT ![mu[p]] = [holder |-> 0, slot |-> slot]]
    /\ ret' = [ret EXCEPT ![p] = r]
    /\ pc' = [pc EXCEPT ![p] = "idle"]
    /\ cached' = [cached EXCEPT ![p] = 0]
    /\ mu' = [mu EXCEPT ![p] = 0]
    /\ addrs' = [addrs EXCEPT ![p] = 0]

\* perform_stream_io on the cached stream returned a frame
ReuseIoOk(p) ==
    /\ pc[p] = "reuse_io"
    /\ LET slot == Some([conn |-> cached[p], last_used |-> now]) IN
          Return(p, RetOk(slot, now), slot)
    /\ UNCHANGED <<target, conn_map, map_lock, now, next_conn, calls_left, notPool>>

\* perform_stream_io on the cached stream failed: go on to fresh connections
ReuseIoErr(p) ==
    /\ pc[p] = "reuse_io"
    /\ mutexes' = [mutexes EXCEPT ![mu[p]].slot = None]
    /\ cached' = [cached EXCEPT ![p] = 0]
    /\ pc' = [pc EXCEPT ![p] = "connect"]
    /\ UNCHANGED <<target, mu, addrs, conn_map, map_lock, now, next_conn, ret, calls_left,
                   notPool>>

\* TcpStream::connect(remote) succeeds within its 3 seconds
ConnectOk(p) ==
    /\ pc[p] = "connect"
    /\ addrs[p] > 0
    /\ cached' = [cached EXCEPT ![p] = next_conn]
    /\ next_conn' = next_conn + 1
    /\ pc' = [pc EXCEPT ![p] = "fresh_io"]
    /\ UNCHANGED <<target, mu, addrs, conn_map, mutexes, map_lock, now, ret, calls_left,
                   notPool>>

\* the connect fails or times out: the call returns without trying the next address
ConnectErr(p) ==
    /\ pc[p] = "connect"
    /\ addrs[p] > 0
    /\ \E why \in {"connect error", "connect timeout/error"} :
          Return(p, RetErr(why, mutexes[mu[p]].slot, now), mutexes[mu[p]].slot)
    /\ UNCHANGED <<target, conn_map, map_lock, now, next_conn, calls_left, notPool>>

\* no address is left to try
AddrsExhausted(p) ==
    /\ pc[p] = "connect"
    /\ addrs[p] = 0
    /\ Return(p, RetErr("failed to send TCP", mutexes[mu[p]].slot, now), mutexes[mu[p]].slot)
    /\ UNCHANGED <<target, conn_map, map_lock, now, next_conn, calls_left, notPool>>

\* perform_stream_io on the fresh stream returned a frame
FreshIoOk(p) ==
    /\ pc[p] = "fresh_io"
    /\ LET slot == Some([conn |-> cached[p], last_used |-> now]) IN
          Return(p, RetOk(slot, now), slot)
    /\ UNCHANGED <<target, conn_map, map_lock, now, next_conn, calls_left, notPool>>

\* perform_stream_io on the fresh stream failed: try the next address
FreshIoErr(p) ==
    /\ pc[p] = "fresh_io"
    /\ mutexes' = [mutexes EXCEPT ![mu[p]].slot = None]
    /\ cached' = [cached EXCEPT ![p] = 0]
    /\ addrs' = [addrs EXCEPT ![p] = @ - 1]
    /\ pc' = [pc EXCEPT ![p] = "connect"]
    /\ UNCHANGED <<target, mu, conn_map, map_lock, now, next_conn, ret, calls_left, notPool>>

\* the places where the call awaits, and those where it holds the slot's guard
AwaitPoints == {"resolve", "map_lock", "slot_lock", "reuse_io", "connect", "fresh_io"}
GuardHeld == {"reuse_io", "connect", "fresh_io"}

\* the caller drops the future at an await: the guards it holds are released and the
\* stream it took out of the slot is closed
Dropped(p) ==
    /\ pc[p] \in AwaitPoints
    /\ mutexes' = IF pc[p] \in GuardHeld
                  THEN [mutexes EXCEPT ![mu[p]].holder = 0]
                  ELSE mutexes
    /\ cached' = [cached EXCEPT ![p] = 0]
    /\ mu' = [mu EXCEPT ![p] = 0]
    /\ addrs' = [addrs EXCEPT ![p] = 0]
    /\ pc' = [pc EXCEPT ![p] = "idle"]
    /\ UNCHANGED <<target, conn_map, map_lock, now, next_conn, ret, calls_left, notPool>>

\* time passes
Tick ==
    /\ pc # <<>>
    /\ now < MaxTime
    /\ now' = now + 1
    /\ UNCHANGED <<pc, target, mu, cached, addrs, conn_map, mutexes, map_lock, next_conn, ret,
                   calls_left, notPool>>

----------------------------------------------------------------------------
(* transport.rs: send_and_recv_udp *)

notUdp == <<sioVars, poolVars, clVars, serVars, rqVars, regVars, devVars, cdVars, ecVars, frVars>>

\* melsec_udp_recv_attempts
UdpRecvAttempts == 2

\* the datagrams that may arrive, at most MaxPackets of them
SerialUdp == 7
UdpPackets ==
    {Mc4eResponse(SerialStray, AccessRouteDefault, 0, <<>>),
     Mc4eResponse(SerialStray, AccessRouteDefault, 0, Word1234),
     Mc4eResponse(SerialUdp, AccessRouteDefault, 0, <<>>),
     Mc4eResponse(SerialUdp, AccessRouteDefault, 0, Word1234),
     MC_SUBHEADER_RESPONSE \o to_le_bytes(SerialStray),
     <<0, 0, 0>>}

MaxPackets == 2

RECURSIVE ArrivalsOf(_)
ArrivalsOf(n) ==
    IF n = 0 THEN {<<>>}
    ELSE LET shorter == ArrivalsOf(n - 1) IN
         shorter \cup {a \o <<k>> : a \in shorter, k \in UdpPackets}

UdpPayloads ==
    {build_mc_payload_with_format(with_serial_number(McRequest_new(1), SerialUdp), MC4E),
     build_mc_payload_with_format(with_serial_number(McRequest_new(1), 0), MC4E)}

\* the serial read from a datagram: bytes 2..3 when there are 4 bytes, else 0
PacketSerial(b) == IF Len(b) >= 4 THEN from_le_bytes(b[3], b[4]) ELSE 0

UdpNoResult == [kind |-> "none"]
UdpOk(bytes) == [kind |-> "ok", bytes |-> bytes]
UdpErr(why) == [kind |-> "err", why |-> why]

\* the datagrams received since the last send, the number discarded in the call, the
\* addresses lookup_host gave, the sockets bound, and the sends on the socket in use
UdpLog0 == [arrived |-> <<>>, discarded |-> 0, resolved |-> 0, bound |-> 0, sent_here |-> 0]

attempts_left_one_more(a) == a <= UdpRecvAttempts

\* for attempt in 0..max_attempts
attempts_left(a) == a < UdpRecvAttempts

UdpInit ==
    /\ udp_pc = "resolve"
    /\ udp_payload \in UdpPayloads
    /\ net \in ArrivalsOf(MaxPackets)
    /\ udp_buf_len = 0
    /\ remotes = 0
    /\ attempt = 0
    /\ sends = 0
    /\ udp_result = UdpNoResult
    /\ udp_log = UdpLog0

\* lookup_host(addr)
UdpResolve ==
    /\ udp_pc = "resolve"
    /\ \/ /\ \E n \in 1..MaxAddrs :
                /\ remotes' = n
                /\ udp_log' = [udp_log EXCEPT !.resolved = n]
          /\ udp_pc' = "bind"
          /\ UNCHANGED udp_result
       \/ /\ udp_result' = UdpErr("bad address")
          /\ udp_pc' = "done"
          /\ UNCHANGED <<remotes, udp_log>>
    /\ UNCHANGED <<udp_payload, net, udp_buf_len, attempt, sends, notUdp>>

\* for remote in addrs: UdpSocket::bind; a failed bind goes on to the next address
UdpBind ==
    /\ udp_pc = "bind"
    /\ remotes > 0
    /\ \/ /\ udp_pc' = "send"
          /\ attempt' = 0
          /\ udp_log' = [udp_log EXCEPT !.bound = @ + 1, !.sent_here = 0]
          /\ UNCHANGED remotes
       \/ /\ remotes' = remotes - 1
          /\ UNCHANGED <<udp_pc, attempt, udp_log>>
    /\ UNCHANGED <<udp_payload, net, udp_buf_len, sends, udp_result, notUdp>>

\* every address was tried
UdpGiveUp ==
    /\ udp_pc = "bind"
    /\ remotes = 0
    /\ udp_result' = UdpErr("failed to send UDP")
    /\ udp_pc' = "done"
    /\ UNCHANGED <<udp_payload, net, udp_buf_len, remotes, attempt, sends, udp_log, notUdp>>

\* for attempt in 0..max_attempts: sock.send_to, then buf = vec![0u8; 65535]
UdpSend ==
    /\ udp_pc = "send"
    /\ attempts_left(attempt)
    /\ sends' = sends + 1
    /\ \/ /\ udp_buf_len' = 65535
          /\ udp_log' = [udp_log EXCEPT !.arrived = <<>>, !.sent_here = @ + 1]
          /\ udp_pc' = "recv"
          /\ UNCHANGED attempt
       \/ /\ attempt' = attempt + 1
          /\ udp_log' = [udp_log EXCEPT !.sent_here = @ + 1]
          /\ UNCHANGED <<udp_pc, udp_buf_len>>
    /\ UNCHANGED <<udp_payload, net, remotes, udp_result, notUdp>>

\* the attempts on this socket are used up: the next address
UdpNextRemote ==
    /\ udp_pc = "send"
    /\ ~attempts_left(attempt)
    /\ remotes' = remotes - 1
    /\ udp_pc' = "bind"
    /\ UNCHANGED <<udp_payload, net, udp_buf_len, attempt, sends, udp_result, udp_log, notUdp>>

\* buf.truncate(n): the buffer the next recv_from of this attempt is given
buf_after_recv(len, n) == n

\* sock.recv_from(&mut buf) takes a datagram that fits the buffer, or one that does not
\* and is cut to the buffer's length; then buf.truncate(n) and the serial test
UdpRecvPacket ==
    /\ udp_pc = "recv"
    /\ net # <<>>
    /\ LET pkt == Head(net)
           n == Min(Len(pkt), udp_buf_len)
           got == SubSeq(pkt, 1, n) IN
          /\ net' = Tail(net)
          /\ udp_buf_len' = buf_after_recv(udp_buf_len, n)
          /\ IF SerialMatches(ExpectedSerial(udp_payload), PacketSerial(got))
             THEN /\ udp_result' = UdpOk(got)
                  /\ udp_pc' = "done"
                  /\ udp_log' = [udp_log EXCEPT !.arrived = Append(@, pkt)]
             ELSE /\ udp_log' = [udp_log EXCEPT !.arrived = Append(@, pkt),
                                                !.discarded = @ + 1]
                  /\ UNCHANGED <<udp_pc, udp_result>>
    /\ UNCHANGED <<udp_payload, remotes, attempt, sends, notUdp>>

\* recv_from fails: an I/O error, the timeout, or (where the socket layer refuses to
\* cut a datagram) a datagram longer than the buffer; the attempt is over
UdpRecvErr ==
    /\ udp_pc = "recv"
    /\ \/ UNCHANGED <<net, udp_log>>
       \/ /\ net # <<>> /\ Len(Head(net)) > udp_buf_len
          /\ net' = Tail(net)
          /\ udp_log' = [udp_log EXCEPT !.arrived = Append(@, Head(net))]
    /\ attempt' = attempt + 1
    /\ udp_pc' = "send"
    /\ UNCHANGED <<udp_payload, udp_buf_len, remotes, sends, udp_result, notUdp>>

\* C6: a datagram with another serial, then one with the outgoing serial s # 0: the
\* first is discarded without error and the call returns all bytes of the second,
\* whichever of the two is the longer.
C6_MismatchThenMatch ==
    (/\ ExpectedSerial(udp_payload) # 0
     /\ Len(udp_log.arrived) = 2
     /\ PacketSerial(udp_log.arrived[1]) # ExpectedSerial(udp_payload)
     /\ PacketSerial(udp_log.arrived[2]) = ExpectedSerial(udp_payload))
        => udp_result = UdpOk(udp_log.arrived[2])

\* the case of C6 in which the code does return the second datagram whole
C6_ReturnedWhole ==
    /\ ExpectedSerial(udp_payload) # 0
    /\ Len(udp_log.arrived) = 2
    /\ udp_log.discarded = 1
    /\ udp_result = UdpOk(udp_log.arrived[2])

----------------------------------------------------------------------------
(* mc_client.rs: read_words, read_bits, write_words, write_bits *)

notCl == <<sioVars, poolVars, udpVars, serVars, rqVars, regVars, devVars, cdVars, ecVars, frVars>>

Ops == {"read_words", "read_bits", "write_words", "write_bits"}

\* melsec_tcp_retry_attempts ranges over 0..MaxAttempts
MaxAttempts == 2

\* melsec_tcp_retry_backoff_ms
melsec_tcp_retry_backoff_ms == 100

\* the lengths of the request data build_request may produce
BodyLens == {4, 65533, 65534}

\* why build_request fails
BuildErrs == {"unknown device", "device family mismatch", "missing field"}

\* the errors either transport returns
TransportErrs == {"connect error", "failed to send"}

\* a device end code other than 0x0000
EndCodeErr == 49241                     \* 0xC059

\* what the peer answers: the frame, its dialect and the end code it carries
Answer(dialect, end_code, bytes) ==
    [dialect |-> dialect, end_code |-> end_code, bytes |-> bytes]

Answers ==
    {Answer("extended", 0, Mc4eResponse(SerialMine, AccessRouteDefault, 0, Word1234)),
     Answer("extended", EndCodeErr,
            Mc4eResponse(SerialMine, AccessRouteDefault, EndCodeErr, <<>>)),
     Answer("compact", 0, Mc3eResponse(<<208, 0>>, AccessRouteDefault, 0, Word1234)),
     Answer("compact", EndCodeErr,
            Mc3eResponse(<<208, 0>>, AccessRouteDefault, EndCodeErr, <<>>)),
     Answer("bare", 0, Mc3eResponse(<<>>, AccessRouteDefault, 0, Word1234)),
     Answer("bare", EndCodeErr, Mc3eResponse(<<>>, AccessRouteDefault, EndCodeErr, <<>>)),
     Answer("bare", EndCodeErr,
            Mc3eResponse(<<>>, AccessRouteDefault, EndCodeErr, Word1234)),
     Answer("malformed", 0, Mc4eHeader(1)),
     Answer("malformed", 0, <<208>>)}

NoAnswer == Answer("none", 0, <<>>)

ClNoResult == [kind |-> "none"]
ClOk(data) == [kind |-> "ok", data |-> data]
ClErr(from, why) == [kind |-> "err", from |-> from, why |-> why]

CallEvent(res) == [ev |-> "call", res |-> res, ms |-> 0]
SleepEvent(ms) == [ev |-> "sleep", res |-> "", ms |-> ms]

ClInit ==
    /\ cl_pc = "registry"
    /\ \E op \in Ops, format \in {MC4E, MC3E}, attempts \in 0..MaxAttempts,
          registry \in {"set", "not set"} :
          cl = [op |-> op, format |-> format, attempts |-> attempts, registry |-> registry,
                build |-> "", body_len |-> 0, serials |-> 0, attempt |-> 0,
                calls |-> 0, last_err |-> None, answer |-> NoAnswer]
    /\ cl_log = <<>>
    /\ cl_result = ClNoResult

\* GLOBAL_COMMAND_REGISTRY.get() and reg.get(command)
ClRegistry ==
    /\ cl_pc = "registry"
    /\ IF cl.registry = "set"
       THEN cl_pc' = "build" /\ UNCHANGED cl_result
       ELSE cl_pc' = "done" /\ cl_result' = ClErr("registry", "global registry not set")
    /\ UNCHANGED <<cl, cl_log, notCl>>

\* spec.build_request(&params, series)?
ClBuild ==
    /\ cl_pc = "build"
    /\ \/ \E why \in BuildErrs :
             /\ cl' = [cl EXCEPT !.build = why]
             /\ cl_result' = ClErr("build", why)
             /\ cl_pc' = "done"
       \/ \E n \in BodyLens :
             /\ cl' = [cl EXCEPT !.build = "ok", !.body_len = n]
             /\ cl_pc' = "frame"
             /\ UNCHANGED cl_result
    /\ UNCHANGED <<cl_log, notCl>>

\* McRequest::new().with_access_route(..).try_with_request_data(request_data)?, then
\* build_with_format
ClFrame ==
    /\ cl_pc = "frame"
    /\ IF RequestDataFits(cl.body_len)
       THEN /\ cl' = [cl EXCEPT !.serials = @ + 1, !.attempt = 1]
            /\ cl_pc' = "send"
            /\ UNCHANGED cl_result
       ELSE /\ cl' = [cl EXCEPT !.serials = @ + 1]
            /\ cl_result' = ClErr("frame", "request_data too large to fit into u16")
            /\ cl_pc' = "done"
    /\ UNCHANGED <<cl_log, notCl>>

LastAttemptNever(n, attempts) == FALSE

\* if attempt == attempts { break; }
LastAttempt(n, attempts) == n = attempts

\* base_backoff_ms * 2^min(attempt - 1, 63)
Backoff(n) == melsec_tcp_retry_backoff_ms * 2 ^ Min(n - 1, 63)

\* an attempt of send_and_recv_with_retry: the transport returns a frame
ClAttemptOk ==
    /\ cl_pc = "send"
    /\ cl.attempt <= cl.attempts
    /\ \E a \in Answers :
          cl' = [cl EXCEPT !.calls = @ + 1, !.answer = a]
    /\ cl_log' = Append(cl_log, CallEvent("ok"))
    /\ cl_pc' = "parse"
    /\ UNCHANGED <<cl_result, notCl>>

\* an attempt fails: the last one ends the loop, any other is followed by the backoff
ClAttemptErr ==
    /\ cl_pc = "send"
    /\ cl.attempt <= cl.attempts
    /\ \E e \in TransportErrs :
          /\ cl' = [cl EXCEPT !.calls = @ + 1, !.last_err = Some(e)]
          /\ cl_log' = Append(cl_log, CallEvent(e))
          /\ IF LastAttempt(cl.attempt, cl.attempts)
             THEN cl_pc' = "done" /\ cl_result' = ClErr("transport", e)
             ELSE cl_pc' = "backoff" /\ UNCHANGED cl_result
    /\ UNCHANGED notCl

\* sleep(backoff), then the next turn of the loop
ClBackoff ==
    /\ cl_pc = "backoff"
    /\ cl_log' = Append(cl_log, SleepEvent(Backoff(cl.attempt)))
    /\ cl' = [cl EXCEPT !.attempt = @ + 1]
    /\ cl_pc' = "send"
    /\ UNCHANGED <<cl_result, notCl>>

\* the loop 1..=attempts is over without a return from inside it
ClLoopOver ==
    /\ cl_pc = "send"
    /\ cl.attempt > cl.attempts
    /\ cl_result' = ClErr("transport", unwrap_or(cl.last_err, "unknown transport error"))
    /\ cl_pc' = "done"
    /\ UNCHANGED <<cl, cl_log, notCl>>

\* check_response_end_code: an end code is there and is not 0
EndCodeFails(response) ==
    response.has_end_code /\ response.end_code # None /\ response.end_code[1] # 0

\* McResponse::try_new(&buf)?, check_response_end_code(&response)?, and
\* spec.parse_response(&params, &response.data)?
ClParse ==
    /\ cl_pc = "parse"
    /\ LET response == parse_mc_payload(cl.answer.bytes) IN
       IF ~response.ok
       THEN cl_result' = ClErr("parse", response.err)
       ELSE IF EndCodeFails(response)
       THEN cl_result' = ClErr("end_code", response.end_code[1])
       ELSE \/ cl_result' = ClOk(response.data)
            \/ cl_result' = ClErr("parse_response", "response shorter than required")
    /\ cl_pc' = "done"
    /\ UNCHANGED <<cl, cl_log, notCl>>

----------------------------------------------------------------------------
(* request.rs: SERIAL_COUNTER and next_serial *)

notSer == <<sioVars, poolVars, udpVars, clVars, rqVars, regVars, devVars, cdVars, ecVars, frVars>>

\* threads that call McRequest::new()
NCallers == 2
Callers == 1..NCallers

\* serials issued in one run
MaxSerials == 4

\* serials the process issued before the run starts: none, or all up to 0xFFFD
PriorSerials == {0, 65533}

\* u16::wrapping_add(1)
wrapping_add_1(v) == (v + 1) % 65536

\* the closure of fetch_update: the counter's next value
next_counter(v) == IF v = 65535 THEN 1 ELSE wrapping_add_1(v)

\* the Ok(prev) arm of next_serial: the serial handed to the caller
serial_of_prev(prev) == IF prev = 65535 THEN 1 ELSE wrapping_add_1(prev)

\* static SERIAL_COUNTER: AtomicU16 = AtomicU16::new(1), and ser_prior calls later
SerInit ==
    /\ \E prior \in PriorSerials :
          /\ ser_prior = prior
          /\ SERIAL_COUNTER = 1 + prior
          /\ issued = <<>>
    /\ ser_pc = [p \in Callers |-> "idle"]
    /\ ser_v = [p \in Callers |-> 0]

InFlight == Cardinality({p \in Callers : ser_pc[p] = "cas"})

\* fetch_update loads the counter
SerLoad(p) ==
    /\ ser_pc[p] = "idle"
    /\ Len(issued) + InFlight < MaxSerials
    /\ ser_v' = [ser_v EXCEPT ![p] = SERIAL_COUNTER]
    /\ ser_pc' = [ser_pc EXCEPT ![p] = "cas"]
    /\ UNCHANGED <<SERIAL_COUNTER, ser_prior, issued, notSer>>

SerStoreBlind(p) ==
    /\ ser_pc[p] = "cas"
    /\ SERIAL_COUNTER' = next_counter(ser_v[p])
    /\ issued' = Append(issued, serial_of_prev(ser_v[p]))
    /\ ser_pc' = [ser_pc EXCEPT ![p] = "idle"]
    /\ UNCHANGED <<ser_prior, ser_v, notSer>>

\* compare_exchange_weak succeeds: the counter moves and next_serial returns
SerCasOk(p) ==
    /\ ser_pc[p] = "cas"
    /\ SERIAL_COUNTER = ser_v[p]
    /\ SERIAL_COUNTER' = next_counter(ser_v[p])
    /\ issued' = Append(issued, serial_of_prev(ser_v[p]))
    /\ ser_pc' = [ser_pc EXCEPT ![p] = "idle"]
    /\ UNCHANGED <<ser_prior, ser_v, notSer>>

\* compare_exchange_weak fails: another caller moved the counter, try again from its value
SerCasFail(p) ==
    /\ ser_pc[p] = "cas"
    /\ SERIAL_COUNTER # ser_v[p]
    /\ ser_v' = [ser_v EXCEPT ![p] = SERIAL_COUNTER]
    /\ UNCHANGED <<SERIAL_COUNTER, ser_prior, ser_pc, issued, notSer>>

----------------------------------------------------------------------------
(* request.rs: a McRequest put together by its builder methods, then built *)

notRq == <<sioVars, poolVars, udpVars, clVars, serVars, regVars, devVars, cdVars, ecVars, frVars>>

\* builder calls on one request
MaxBuilderCalls == 2

\* the longest request data a frame takes, and the first length it refuses
BodyLenMax == 65533

BodyOfLen(n) == [i \in 1..n |-> 0]

\* the request data of a batch read of one word at D100
ReadWordsBody == <<1, 4, 0, 0, 100, 0, 0, 168, 1, 0>>

Bodies ==
    {<<>>, <<1>>, <<1, 4, 0>>, <<1, 4, 0, 0>>, ReadWordsBody, BodyOfLen(254),
     BodyOfLen(BodyLenMax), BodyOfLen(BodyLenMax + 1)}

NoFrame == [format |-> "", bytes |-> <<>>]
NotReadBack == [ok |-> FALSE, err |-> "not read back"]

with_subheader(r, sh) == [r EXCEPT !.subheader = sh]
with_monitoring_timer(r, t) == [r EXCEPT !.monitoring_timer = t]

RqInit ==
    /\ rq_pc = "building"
    /\ \E s \in {2, SerialMine} : rq = McRequest_new(s)
    /\ rq_log = <<>>
    /\ rq_frame = NoFrame
    /\ rq_back = NotReadBack

RqCanCall == rq_pc = "building" /\ Len(rq_log) < MaxBuilderCalls

RqWithSubheader ==
    /\ RqCanCall
    /\ rq' = with_subheader(rq, <<80, 0>>)
    /\ rq_log' = Append(rq_log, "with_subheader")
    /\ UNCHANGED <<rq_pc, rq_frame, rq_back, notRq>>

RqWithAccessRoute ==
    /\ RqCanCall
    /\ \E ar \in {RouteZero, RouteNet5} : rq' = with_access_route(rq, ar)
    /\ rq_log' = Append(rq_log, "with_access_route")
    /\ UNCHANGED <<rq_pc, rq_frame, rq_back, notRq>>

RqWithSerialNumber ==
    /\ RqCanCall
    /\ \E s \in {0, SerialStray} : rq' = with_serial_number(rq, s)
    /\ rq_log' = Append(rq_log, "with_serial_number")
    /\ UNCHANGED <<rq_pc, rq_frame, rq_back, notRq>>

RqWithMonitoringTimer ==
    /\ RqCanCall
    /\ rq' = with_monitoring_timer(rq, 16)
    /\ rq_log' = Append(rq_log, "with_monitoring_timer")
    /\ UNCHANGED <<rq_pc, rq_frame, rq_back, notRq>>

\* try_with_request_data: Ok(self) with the data and its length, or Err and the request
\* is gone
RqTryWithRequestData ==
    /\ RqCanCall
    /\ \E body \in Bodies :
          IF RequestDataFits(Len(body))
          THEN rq' = try_with_request_data(rq, body) /\ UNCHANGED rq_pc
          ELSE rq_pc' = "refused" /\ UNCHANGED rq
    /\ rq_log' = Append(rq_log, "try_with_request_data")
    /\ UNCHANGED <<rq_frame, rq_back, notRq>>

\* build_with_format(format)
RqBuild ==
    /\ rq_pc = "building"
    /\ \E format \in {MC4E, MC3E} :
          rq_frame' = [format |-> format, bytes |-> build_mc_payload_with_format(rq, format)]
    /\ rq_pc' = "built"
    /\ UNCHANGED <<rq, rq_log, rq_back, notRq>>

\* McRequest::try_from_payload on the bytes just built
RqTryFromPayload ==
    /\ rq_pc = "built"
    /\ rq_back' = try_from_payload(rq_frame.bytes)
    /\ rq_pc' = "parsed"
    /\ UNCHANGED <<rq, rq_log, rq_frame, notRq>>

----------------------------------------------------------------------------
(* command_registry.rs, device_registry.rs, error_codes.rs, lib.rs: the registries *)

notReg == <<sioVars, poolVars, udpVars, clVars, serVars, rqVars, devVars, cdVars, ecVars, frVars>>

\* threads that initialise and register
Threads == {"main", "worker"}

\* calls made in a run
MaxRegCalls == 3

\* OnceCell::set: the value goes in when the cell is empty, else Err and no change
OnceCell_set_overwrites(cell, v) == [cell |-> Some(v), ok |-> TRUE]

OnceCell_set(cell, v) ==
    IF cell = None THEN [cell |-> Some(v), ok |-> TRUE] ELSE [cell |-> cell, ok |-> FALSE]

\* command registries: the one compiled in, and one the application loaded
EmbeddedCommands == "embedded commands.toml"
CommandContents == {EmbeddedCommands, "application commands.toml"}

\* s.parse::<CommandRegistry>() and ErrorRegistry::from_str of the compiled-in files
EmbeddedParse == "ok"

\* device override documents
OverrideDocs == {"device X", "device Y"}

\* error code documents: (code, description) in the order of the file
DocA == <<<<0, "completed (A)">>, <<84, "format mismatch (A)">>>>
DocB == <<<<84, "format mismatch (B)">>, <<49167, "duplicate IP (B)">>>>
EmbeddedErrorCodes == <<<<0, "completed">>, <<49241, "C059">>>>
ErrorDocs == {DocA, DocB}

HashMap_new == [c \in {} |-> ""]

HashMap_insert_if_absent(m, k, v) ==
    [c \in DOMAIN m \cup {k} |-> IF c \in DOMAIN m THEN m[c] ELSE v]

\* HashMap::insert: the entry of k is v from now on
HashMap_insert(m, k, v) == [c \in DOMAIN m \cup {k} |-> IF c = k THEN v ELSE m[c]]

\* for e in &self.codes { map.insert(e.code, ..) }
RECURSIVE insert_codes(_, _)
insert_codes(m, doc) ==
    IF doc = <<>> THEN m
    ELSE insert_codes(HashMap_insert(m, Head(doc)[1], Head(doc)[2]), Tail(doc))

AlreadySetMsg == "global CommandRegistry already set"

IsAlreadySetNever(msg) == FALSE

\* init_defaults: msg.contains("global CommandRegistry already set")
IsAlreadySet(msg) == msg = AlreadySetMsg

ThIdle == [at |-> "idle", op |-> "", doc |-> <<>>]

RegInit ==
    /\ GLOBAL_COMMAND_REGISTRY = None
    /\ DEVICE_OVERRIDES = None
    /\ ERROR_REGISTRY = None
    /\ th = [t \in Threads |-> ThIdle]
    /\ reg_log = <<>>
    /\ set_log = <<>>
    /\ err_applied = <<>>

Busy == {t \in Threads : th[t].at # "idle"}
RegCanCall(t) == th[t].at = "idle" /\ Len(reg_log) + Cardinality(Busy) < MaxRegCalls

Returned(t, op, ok) == [by |-> t, op |-> op, ok |-> ok]
SetAttempt(cell, content, ok) == [cell |-> cell, content |-> content, ok |-> ok]

\* CommandRegistry::set_global
RegSetGlobal(t) ==
    /\ RegCanCall(t)
    /\ \E c \in CommandContents :
          LET r == OnceCell_set(GLOBAL_COMMAND_REGISTRY, c) IN
          /\ GLOBAL_COMMAND_REGISTRY' = r.cell
          /\ set_log' = Append(set_log, SetAttempt("commands", c, r.ok))
          /\ reg_log' = Append(reg_log, Returned(t, "set_global", r.ok))
    /\ UNCHANGED <<DEVICE_OVERRIDES, ERROR_REGISTRY, th, err_applied, notReg>>

\* DeviceRegistry::register_overrides
RegRegisterOverrides(t) ==
    /\ RegCanCall(t)
    /\ \E d \in OverrideDocs :
          LET r == OnceCell_set(DEVICE_OVERRIDES, d) IN
          /\ DEVICE_OVERRIDES' = r.cell
          /\ set_log' = Append(set_log, SetAttempt("overrides", d, r.ok))
          /\ reg_log' = Append(reg_log, Returned(t, "register_overrides", r.ok))
    /\ UNCHANGED <<GLOBAL_COMMAND_REGISTRY, ERROR_REGISTRY, th, err_applied, notReg>>

\* the first half of init_defaults() and of McClient::new():
\* load_and_set_global_from_src(); new() ignores its error, init_defaults() ignores
\* the error that says the registry is set already and returns any other
RegLoadAndSet(t) ==
    /\ RegCanCall(t)
    /\ \E op \in {"init_defaults", "McClient::new"} :
          LET parsed == EmbeddedParse = "ok"
              r == IF parsed THEN OnceCell_set(GLOBAL_COMMAND_REGISTRY, EmbeddedCommands)
                   ELSE [cell |-> GLOBAL_COMMAND_REGISTRY, ok |-> FALSE]
              msg == IF parsed THEN AlreadySetMsg ELSE "commands.toml parse error"
              goes_on == r.ok \/ op = "McClient::new" \/ IsAlreadySet(msg)
          IN
          /\ GLOBAL_COMMAND_REGISTRY' = r.cell
          /\ set_log' = IF parsed
                        THEN Append(set_log, SetAttempt("commands", EmbeddedCommands, r.ok))
                        ELSE set_log
          /\ IF goes_on
             THEN /\ th' = [th EXCEPT ![t] = [at |-> "err_set", op |-> op,
                                             doc |-> EmbeddedErrorCodes]]
                  /\ UNCHANGED reg_log
             ELSE /\ reg_log' = Append(reg_log, Returned(t, op, FALSE))
                  /\ UNCHANGED th
    /\ UNCHANGED <<DEVICE_OVERRIDES, ERROR_REGISTRY, err_applied, notReg>>

\* ErrorRegistry::register_or_merge is called on a parsed document
RegOrMerge(t) ==
    /\ RegCanCall(t)
    /\ \E d \in ErrorDocs :
          th' = [th EXCEPT ![t] = [at |-> "err_set", op |-> "register_or_merge", doc |-> d]]
    /\ UNCHANGED <<GLOBAL_COMMAND_REGISTRY, DEVICE_OVERRIDES, ERROR_REGISTRY, reg_log,
                   set_log, err_applied, notReg>>

\* register_or_merge: the map of the document is built and ERROR_REGISTRY.set tried
RegErrSet(t) ==
    /\ th[t].at = "err_set"
    /\ LET r == OnceCell_set(ERROR_REGISTRY, insert_codes(HashMap_new, th[t].doc)) IN
       /\ ERROR_REGISTRY' = r.cell
       /\ IF r.ok
          THEN /\ err_applied' = Append(err_applied, th[t].doc)
               /\ reg_log' = Append(reg_log, Returned(t, th[t].op, TRUE))
               /\ th' = [th EXCEPT ![t] = ThIdle]
          ELSE /\ th' = [th EXCEPT ![t].at = "err_merge"]
               /\ UNCHANGED <<err_applied, reg_log>>
    /\ UNCHANGED <<GLOBAL_COMMAND_REGISTRY, DEVICE_OVERRIDES, set_log, notReg>>

\* register_or_merge, the registry being set: under the write lock every entry of the
\* document is inserted
RegErrMerge(t) ==
    /\ th[t].at = "err_merge"
    /\ ERROR_REGISTRY' = Some(insert_codes(ERROR_REGISTRY[1], th[t].doc))
    /\ err_applied' = Append(err_applied, th[t].doc)
    /\ reg_log' = Append(reg_log, Returned(t, th[t].op, TRUE))
    /\ th' = [th EXCEPT ![t] = ThIdle]
    /\ UNCHANGED <<GLOBAL_COMMAND_REGISTRY, DEVICE_OVERRIDES, set_log, notReg>>

----------------------------------------------------------------------------
(* device.rs: parse_device_and_address *)

notDev == <<sioVars, poolVars, udpVars, clVars, serVars, rqVars, regVars, cdVars, ecVars, frVars>>

\* text is a sequence of one-character strings
UpperLetters ==
    <<"A", "B", "C", "D", "E", "F", "G", "H", "I", "J", "K", "L", "M", "N", "O", "P", "Q",
      "R", "S", "T", "U", "V", "W", "X", "Y", "Z">>
LowerLetters ==
    <<"a", "b", "c", "d", "e", "f", "g", "h", "i", "j", "k", "l", "m", "n", "o", "p", "q",
      "r", "s", "t", "u", "v", "w", "x", "y", "z">>
UpperDigits ==
    <<"0", "1", "2", "3", "4", "5", "6", "7", "8", "9", "A", "B", "C", "D", "E", "F">>
LowerDigits ==
    <<"0", "1", "2", "3", "4", "5", "6", "7", "8", "9", "a", "b", "c", "d", "e", "f">>

Decimal == "Decimal"
Hexadecimal == "Hexadecimal"
RadixOf(base) == IF base = Decimal THEN 10 ELSE 16

\* the devices of the catalog the tests of device.rs parse: D in decimal, W in hex
DeviceD == [symbol |-> <<"D">>, base |-> Decimal]
DeviceW == [symbol |-> <<"W">>, base |-> Hexadecimal]
Catalog == {DeviceD, DeviceW}

\* addresses: the ends of the 24-bit range, the first address past it, and addresses
\* whose hexadecimal form starts with a digit and with a letter
Addresses == {0, 9, 10, 100, 160, 255, 8191, 43981, 16777215, 16777216}

\* a written in the given radix with the given digits
RECURSIVE to_radix(_, _, _)
to_radix(a, radix, digits) ==
    IF a < radix THEN <<digits[a + 1]>>
    ELSE to_radix(a \div radix, radix, digits) \o <<digits[(a % radix) + 1]>>

is_ascii_alphabetic(c) ==
    \E i \in 1..26 : UpperLetters[i] = c \/ LowerLetters[i] = c

\* char::to_uppercase on ASCII
to_uppercase_char(c) ==
    IF \E i \in 1..26 : LowerLetters[i] = c
    THEN UpperLetters[CHOOSE i \in 1..26 : LowerLetters[i] = c]
    ELSE c

to_uppercase(s) == [i \in 1..Len(s) |-> to_uppercase_char(s[i])]
to_lowercase(s) ==
    [i \in 1..Len(s) |->
        IF \E k \in 1..26 : UpperLetters[k] = s[i]
        THEN LowerLetters[CHOOSE k \in 1..26 : UpperLetters[k] = s[i]]
        ELSE s[i]]

\* str::trim
RECURSIVE trim_start(_)
trim_start(s) == IF s # <<>> /\ Head(s) = " " THEN trim_start(Tail(s)) ELSE s
RECURSIVE trim_end(_)
trim_end(s) ==
    IF s # <<>> /\ s[Len(s)] = " " THEN trim_end(SubSeq(s, 1, Len(s) - 1)) ELSE s
trim(s) == trim_end(trim_start(s))

\* the loop over up.chars(): the number of leading ASCII letters
RECURSIVE leading_letters(_)
leading_letters(s) ==
    IF s # <<>> /\ is_ascii_alphabetic(Head(s)) THEN 1 + leading_letters(Tail(s)) ELSE 0

\* the value of digit c in the radix, or -1
digit_value(c, radix) ==
    LET hits == {v \in 0..(radix - 1) : UpperDigits[v + 1] = c \/ LowerDigits[v + 1] = c}
    IN IF hits = {} THEN -1 ELSE CHOOSE v \in hits : TRUE

\* num_part.parse::<u32>() and u32::from_str_radix(num_part, 16) on the texts of the
\* model, none of which is long enough to pass u32::MAX: None for a text that is empty
\* or has a character that is no digit of the radix
RECURSIVE parse_digits(_, _, _)
parse_digits(s, radix, acc) ==
    IF s = <<>> THEN Some(acc)
    ELSE IF digit_value(Head(s), radix) < 0 THEN None
    ELSE parse_digits(Tail(s), radix, acc * radix + digit_value(Head(s), radix))

from_str_radix(s, radix) == IF s = <<>> THEN None ELSE parse_digits(s, radix, 0)

\* device_by_symbol
device_by_symbol(symbol) ==
    LET hits == {d \in Catalog : d.symbol = symbol}
    IN IF hits = {} THEN None ELSE Some(CHOOSE d \in hits : TRUE)

DevErr(why) == [ok |-> FALSE, err |-> why]
DevOk(device, addr) == [ok |-> TRUE, device |-> device, addr |-> addr]

parse_device_and_address(text) ==
    LET s == trim(text)
        up == to_uppercase(s)
        sym_len == leading_letters(up)
        symbol == SubSeq(up, 1, sym_len)
        num_part == trim(SubSeq(s, sym_len + 1, Len(s)))
        device == device_by_symbol(symbol)
        addr == from_str_radix(num_part, RadixOf(device[1].base))
    IN IF s = <<>> THEN DevErr("empty device string")
       ELSE IF sym_len = 0 THEN DevErr("invalid device string")
       ELSE IF num_part = <<>> THEN DevErr("missing numeric address in device string")
       ELSE IF device = None THEN DevErr("unknown device symbol")
       ELSE IF addr = None THEN DevErr("invalid numeric address")
       ELSE IF addr[1] > 16777215 THEN DevErr("address out of range (max 0xFFFFFF)")
       ELSE DevOk(device[1], addr[1])

DevInit ==
    /\ dev_pc = "format"
    /\ \E d \in Catalog, a \in Addresses : dev_in = [device |-> d, addr |-> a]
    /\ dev_text = <<>>
    /\ dev_out = DevErr("")

\* the caller writes the symbol, in either case, and the address in the device's radix,
\* with capital or small digits, with or without blanks around
DevFormat ==
    /\ dev_pc = "format"
    /\ \E symbol \in {dev_in.device.symbol, to_lowercase(dev_in.device.symbol)},
          digits \in {UpperDigits, LowerDigits}, pad \in {<<>>, <<" ">>} :
          dev_text' = pad \o symbol
                      \o to_radix(dev_in.addr, RadixOf(dev_in.device.base), digits) \o pad
    /\ dev_pc' = "parse"
    /\ UNCHANGED <<dev_in, dev_out, notDev>>

DevParse ==
    /\ dev_pc = "parse"
    /\ dev_out' = parse_device_and_address(dev_text)
    /\ dev_pc' = "done"
    /\ UNCHANGED <<dev_in, dev_text, notDev>>

----------------------------------------------------------------------------
(* command_registry.rs: build_request and parse_response *)

notCd == <<sioVars, poolVars, udpVars, clVars, serVars, rqVars, regVars, devVars, ecVars, frVars>>

\* serde_json values
JNum(n) == [t |-> "num", n |-> n]
JStr(bytes) == [t |-> "str", s |-> bytes]
JArr(items) == [t |-> "arr", a |-> items]
JObj(map) == [t |-> "obj", o |-> map]

\* map.get(name).and_then(as_u64), .and_then(as_str), .and_then(as_array)
get_u64(map, name) ==
    IF name \in DOMAIN map /\ map[name].t = "num" THEN Some(map[name].n) ELSE None
get_str(map, name) ==
    IF name \in DOMAIN map /\ map[name].t = "str" THEN Some(map[name].s) ELSE None
get_array(map, name) ==
    IF name \in DOMAIN map /\ map[name].t = "arr" THEN Some(map[name].a) ELSE None

\* the devices the tests of command_registry.rs address by code:
\* M = 0x90 and X = 0x9C are bit devices, D = 0xA8 is a word device
DEVICE_BY_CODE == [c \in {144, 156, 168} |-> IF c = 168 THEN "Word" ELSE "Bit"]

device_by_code(code) ==
    IF code \in DOMAIN DEVICE_BY_CODE THEN Some([category |-> DEVICE_BY_CODE[code]]) ELSE None

DeviceFamily == {"Any", "Bit", "Word", "DoubleWord"}

\* Ok(..) and Err(MelsecError::Protocol(..)) of the codec
CdErr(why) == [ok |-> FALSE, err |-> why]
CdOk(out) == [ok |-> TRUE, out |-> out]

\* the mutant of the Word arm: a word-family command takes any device
family_word_accepts_any(category) == TRUE

\* DeviceFamily::Word accepts the categories Word and DoubleWord
family_word_accepts(category) == category = "Word" \/ category = "DoubleWord"

validate_code_for_family(command, code_num, family) ==
    LET dev == device_by_code(code_num)
    IN IF code_num > 255 THEN CdErr("device code out of range")
       ELSE IF dev = None THEN CdOk(<<>>)
       ELSE IF family = "Any" THEN CdOk(<<>>)
       ELSE IF family = "Bit"
       THEN IF dev[1].category # "Bit" THEN CdErr("requires a bit device") ELSE CdOk(<<>>)
       ELSE IF family = "Word"
       THEN IF ~family_word_accepts(dev[1].category)
            THEN CdErr("requires a word device") ELSE CdOk(<<>>)
       ELSE IF dev[1].category # "DoubleWord"
            THEN CdErr("requires a double-word device") ELSE CdOk(<<>>)

\* format!("{}s", bt.name)
block_key(name) == IF name = "bit_block" THEN "bit_blocks" ELSE "word_blocks"

\* the least significant n bytes of v, low byte first or last
RECURSIVE le_bytes(_, _)
le_bytes(n, v) == IF n = 0 THEN <<>> ELSE <<v % 256>> \o le_bytes(n - 1, v \div 256)
reverse(s) == [i \in 1..Len(s) |-> s[Len(s) + 1 - i]]
write_n_bytes(out, n, v, le) == out \o (IF le THEN le_bytes(n, v) ELSE reverse(le_bytes(n, v)))

\* b.is_ascii_digit() || (b'A'..=b'F').contains(&b) || (b'a'..=b'f').contains(&b)
is_ascii_hex(b) == b \in 48..57 \/ b \in 65..70 \/ b \in 97..102

get_num_field(spec, name, params) ==
    IF name = "command" THEN CdOk(spec.command_code)
    ELSE IF name = "subcommand" THEN CdOk(spec.subcommand)
    ELSE IF name = "word_block_count"
    THEN CdOk(IF get_array(params, "word_blocks") = None THEN 0
              ELSE Len(get_array(params, "word_blocks")[1]))
    ELSE IF name = "bit_block_count"
    THEN CdOk(IF get_array(params, "bit_blocks") = None THEN 0
              ELSE Len(get_array(params, "bit_blocks")[1]))
    ELSE IF get_u64(params, name) # None THEN CdOk(get_u64(params, name)[1])
    ELSE CdErr("missing numeric param")

\* the width and byte order a fixed field is written with
effective_n(name, n, plc_series, top) ==
    IF top /\ (name = "command" \/ name = "subcommand") THEN n
    ELSE IF name = "device_code" THEN (IF plc_series = Some("R") THEN 2 ELSE 1)
    ELSE IF name = "start_addr" THEN (IF plc_series = Some("R") THEN 4 ELSE n)
    ELSE n
effective_le(name, le, plc_series, top) ==
    IF top /\ (name = "command" \/ name = "subcommand") THEN TRUE
    ELSE IF name = "device_code" THEN TRUE
    ELSE IF name = "start_addr" THEN (IF plc_series = Some("R") THEN TRUE ELSE le)
    ELSE le

write_fixed_bytes_field(spec, f, params, plc_series, out) ==
    LET v == get_num_field(spec, f.name, params)
    IN IF ~v.ok THEN v
       ELSE CdOk(write_n_bytes(out, effective_n(f.name, f.n, plc_series, TRUE), v.out,
                               effective_le(f.name, f.le, plc_series, TRUE)))

\* the bytes of a numeric array, each item a number of 0..255
RECURSIVE push_byte_items(_, _)
push_byte_items(items, out) ==
    IF items = <<>> THEN CdOk(out)
    ELSE IF Head(items).t # "num" THEN CdErr("payload item not number")
    ELSE IF Head(items).n > 255 THEN CdErr("payload item out of range for u8")
    ELSE push_byte_items(Tail(items), Append(out, Head(items).n))

write_ascii_hex_field(f, params, out) ==
    LET s == get_str(params, f.name)
        arr == get_array(params, f.name)
    IN IF s # None
       THEN IF \E i \in 1..Len(s[1]) : ~is_ascii_hex(s[1][i])
            THEN CdErr("payload string contains invalid ascii_hex byte")
            ELSE CdOk(out \o s[1])
       ELSE IF arr # None THEN push_byte_items(arr[1], out)
       ELSE CdOk(out)

\* the loop over request_fields
RECURSIVE write_fields(_, _, _, _, _)
write_fields(spec, fields, params, plc_series, out) ==
    IF fields = <<>> THEN CdOk(out)
    ELSE LET f == Head(fields)
             r == IF f.kind = "FixedBytes"
                  THEN write_fixed_bytes_field(spec, f, params, plc_series, out)
                  ELSE write_ascii_hex_field(f, params, out)
         IN IF ~r.ok THEN r ELSE write_fields(spec, Tail(fields), params, plc_series, r.out)

\* the device_code checks of the entries of one block template
RECURSIVE validate_entries(_, _, _)
validate_entries(spec, family, entries) ==
    IF entries = <<>> THEN CdOk(<<>>)
    ELSE LET e == Head(entries)
             dc == IF e.t = "obj" THEN get_u64(e.o, "device_code") ELSE None
             r == IF dc = None THEN CdOk(<<>>)
                  ELSE validate_code_for_family(spec.id, dc[1], family)
         IN IF ~r.ok THEN r ELSE validate_entries(spec, family, Tail(entries))

RECURSIVE validate_blocks(_, _, _)
validate_blocks(spec, templates, params) ==
    IF templates = <<>> THEN CdOk(<<>>)
    ELSE LET bt == Head(templates)
             arr == get_array(params, block_key(bt.name))
             family == IF bt.device_family = None THEN spec.device_family
                       ELSE bt.device_family[1]
             r == IF arr = None THEN CdOk(<<>>) ELSE validate_entries(spec, family, arr[1])
         IN IF ~r.ok THEN r ELSE validate_blocks(spec, Tail(templates), params)

write_request_fields(spec, params, plc_series, out) ==
    LET dc == get_u64(params, "device_code")
        top == IF dc = None THEN CdOk(<<>>)
               ELSE validate_code_for_family(spec.id, dc[1], spec.device_family)
        blocks == validate_blocks(spec, spec.block_templates, params)
    IN IF ~top.ok THEN top
       ELSE IF ~blocks.ok THEN blocks
       ELSE write_fields(spec, spec.request_fields, params, plc_series, out)

\* one entry of a block: its fixed fields in order
RECURSIVE emit_entry_fields(_, _, _, _)
emit_entry_fields(fields, map, plc_series, out) ==
    IF fields = <<>> THEN CdOk(out)
    ELSE LET fld == Head(fields)
             val == get_u64(map, fld.name)
         IN IF val = None THEN CdErr("missing block field")
            ELSE emit_entry_fields(Tail(fields), map, plc_series,
                     write_n_bytes(out, effective_n(fld.name, fld.n, plc_series, FALSE),
                                   val[1], effective_le(fld.name, fld.le, plc_series, FALSE)))

RECURSIVE emit_entries(_, _, _, _)
emit_entries(bt, entries, plc_series, out) ==
    IF entries = <<>> THEN CdOk(out)
    ELSE IF Head(entries).t # "obj" THEN CdErr("block entry must be object")
    ELSE LET r == emit_entry_fields(bt.fields, Head(entries).o, plc_series, out)
         IN IF ~r.ok THEN r ELSE emit_entries(bt, Tail(entries), plc_series, r.out)

emit_block_template(bt, params, plc_series, out) ==
    LET arr == get_array(params, block_key(bt.name))
    IN IF arr = None THEN CdErr("missing block array")
       ELSE emit_entries(bt, arr[1], plc_series, out)

\* append_blocks: the commands of the model declare no limits
RECURSIVE append_blocks(_, _, _, _)
append_blocks(templates, params, plc_series, out) ==
    IF templates = <<>> THEN CdOk(out)
    ELSE LET r == emit_block_template(Head(templates), params, plc_series, out)
         IN IF ~r.ok THEN r ELSE append_blocks(Tail(templates), params, plc_series, r.out)

build_request(spec, params, plc_series) ==
    LET r == write_request_fields(spec, params, plc_series, <<>>)
    IN IF ~r.ok THEN r ELSE append_blocks(spec.block_templates, params, plc_series, r.out)

JBool(b) == [t |-> "bool", b |-> b]

\* result_map.insert(key, value)
map_insert(map, key, value) ==
    [k \in DOMAIN map \cup {key} |-> IF k = key THEN value ELSE map[k]]

\* push_array_in_result_map: append to the array under key, or start one
push_array_in_result_map(map, key, value) ==
    IF key \in DOMAIN map /\ map[key].t = "arr"
    THEN map_insert(map, key, JArr(Append(map[key].a, value)))
    ELSE map_insert(map, key, JArr(<<value>>))

\* the words of one block: count pairs of bytes from offset on, low byte first or last
words_at(bytes, offset, count, le) ==
    [i \in 1..count |->
        LET b0 == bytes[offset + (i - 1) * 2 + 1]
            b1 == bytes[offset + (i - 1) * 2 + 2]
        IN JNum(IF le THEN b0 + 256 * b1 ELSE 256 * b0 + b1)]

\* for i in 0..16 { ((w >> i) & 0x01) != 0 }
bits_arr(w) == [i \in 1..16 |-> JBool((w \div (2 ^ (i - 1))) % 2 = 1)]

\* the mutant of the test below: any device with one word gets its bits
wants_bit_blocks_any_device(category, count) == count = 1

\* dev.category == DeviceType::Bit && count == 1
wants_bit_blocks(category, count) == category = "Bit" /\ count = 1

\* the device code of a block: its own, or else the top-level one of the parameters
block_device_code(block, params) ==
    IF block.t = "obj" /\ get_u64(block.o, "device_code") # None
    THEN get_u64(block.o, "device_code")
    ELSE get_u64(params, "device_code")

\* the loop over the block descriptors of parse_block_words_entry
RECURSIVE parse_word_blocks(_, _, _, _, _, _, _)
parse_word_blocks(blocks, le, params, bytes, offset, out_blocks, map) ==
    IF blocks = <<>> THEN [ok |-> TRUE, offset |-> offset, out_blocks |-> out_blocks, map |-> map]
    ELSE LET block == Head(blocks)
             count == IF block.t = "obj" THEN get_u64(block.o, "count") ELSE None
             dc == block_device_code(block, params)
             dev == IF dc = None \/ dc[1] > 255 THEN None ELSE device_by_code(dc[1])
         IN IF count = None THEN CdErr("missing count in block")
            ELSE IF offset + count[1] * 2 > Len(bytes)
            THEN CdErr("response too short for word block")
            ELSE LET words == words_at(bytes, offset, count[1], le)
                     map1 == IF dev # None /\ wants_bit_blocks(dev[1].category, count[1])
                                 /\ Len(words) = 1
                             THEN push_array_in_result_map(map, "bit_blocks",
                                                           JArr(bits_arr(words[1].n)))
                             ELSE map
                 IN parse_word_blocks(Tail(blocks), le, params, bytes,
                                      offset + count[1] * 2,
                                      Append(out_blocks, JArr(words)), map1)

parse_block_words_entry(name, le, params, bytes, offset, map) ==
    LET arr == IF get_array(params, name) = None THEN <<>> ELSE get_array(params, name)[1]
        r == parse_word_blocks(arr, le, params, bytes, offset, <<>>, map)
    IN IF ~r.ok THEN r
       ELSE [ok |-> TRUE, offset |-> r.offset,
             map |-> map_insert(r.map, name, JArr(r.out_blocks))]

\* ResponseEntry::AsciiHex: the rest of the bytes as a string of hex digits
parse_ascii_hex_entry(name, bytes, offset, map) ==
    IF offset > Len(bytes) THEN CdErr("response offset beyond end")
    ELSE IF \E i \in (offset + 1)..Len(bytes) : ~is_ascii_hex(bytes[i])
    THEN CdErr("response ascii_hex contains invalid byte")
    ELSE [ok |-> TRUE, offset |-> Len(bytes),
          map |-> map_insert(map, name, JStr(SubSeq(bytes, offset + 1, Len(bytes))))]

\* the loop over response_entries
RECURSIVE parse_response_entries(_, _, _, _, _)
parse_response_entries(entries, params, bytes, offset, map) ==
    IF entries = <<>> THEN CdOk(map)
    ELSE LET e == Head(entries)
             r == IF e.kind = "BlockWords"
                  THEN parse_block_words_entry(e.name, e.le, params, bytes, offset, map)
                  ELSE parse_ascii_hex_entry(e.name, bytes, offset, map)
         IN IF ~r.ok THEN r
            ELSE parse_response_entries(Tail(entries), params, bytes, r.offset, r.map)

parse_response(spec, params, bytes) ==
    parse_response_entries(spec.response_entries, params, bytes, 0, <<>>)

\* the entries of the response formats of the tests
BlockWords(name, le) == [kind |-> "BlockWords", name |-> name, le |-> le]
AsciiHexEntry(name) == [kind |-> "AsciiHex", name |-> name, le |-> TRUE]

\* the fields of the request formats of the tests
Fixed(name, n, le) == [name |-> name, kind |-> "FixedBytes", n |-> n, le |-> le]
AsciiHexField(name) == [name |-> name, kind |-> "AsciiHex", n |-> 0, le |-> TRUE]

\* read_words: "command:2be", "subcommand:2be", "start_addr:3le", "device_code:1", "count:2le"
\* and the response "data_blocks:blocks_words_le"
ReadWordsSpec(family) ==
    [id |-> "read_words", command_code |-> 1025, subcommand |-> 0, device_family |-> family,
     request_fields |-> <<Fixed("command", 2, FALSE), Fixed("subcommand", 2, FALSE),
                          Fixed("start_addr", 3, TRUE), Fixed("device_code", 1, FALSE),
                          Fixed("count", 2, TRUE)>>,
     response_entries |-> <<BlockWords("data_blocks", TRUE)>>, block_templates |-> <<>>]

\* write_blocks with one block template, with or without a family of its own
WriteBlocksSpec(family, block_name, block_family) ==
    [id |-> "write_blocks", command_code |-> 5126, subcommand |-> 0, device_family |-> family,
     request_fields |-> <<Fixed("command", 2, FALSE), Fixed("subcommand", 2, FALSE),
                          Fixed("word_block_count", 1, FALSE),
                          Fixed("bit_block_count", 1, FALSE)>>,
     response_entries |-> <<>>,
     block_templates |-> <<[name |-> block_name, device_family |-> block_family,
                            fields |-> <<Fixed("start_addr", 3, TRUE),
                                         Fixed("device_code", 1, FALSE),
                                         Fixed("count", 2, TRUE)>>]>>]

\* echo: command 0x0619, subcommand 0, payload:ascii_hex in both directions
EchoSpec ==
    [id |-> "echo", command_code |-> 1561, subcommand |-> 0, device_family |-> "Any",
     request_fields |-> <<Fixed("command", 2, FALSE), Fixed("subcommand", 2, FALSE),
                          AsciiHexField("payload")>>,
     response_entries |-> <<AsciiHexEntry("payload")>>, block_templates |-> <<>>]

CommandSpecs ==
    {ReadWordsSpec(f) : f \in DeviceFamily}
    \cup {WriteBlocksSpec(f, n, bf) : f \in {"Any", "Bit"}, n \in {"bit_block", "word_block"},
                                      bf \in {None, Some("Bit"), Some("Word")}}
    \cup {EchoSpec}

\* device codes a caller passes: M, X, D, a code of no device, a code over one byte
DeviceCodes == {144, 156, 168, 1, 256}

\* ascii-hex payloads as bytes: "1A", "ab", "G1", "1g", "0 "
HexPayloads == {<<49, 65>>, <<97, 98>>}
NonHexPayloads == {<<71, 49>>, <<49, 103>>, <<48, 32>>}
PayloadBytes == HexPayloads \cup NonHexPayloads

ArrayOf(bytes) == JArr([i \in 1..Len(bytes) |-> JNum(bytes[i])])

\* descriptors of the blocks of a response: one word, one word of M or of D, two words,
\* a word of M and then a word of D, no word
BlockDescriptors ==
    {<<JObj([count |-> JNum(1)])>>,
     <<JObj([count |-> JNum(1), device_code |-> JNum(144)])>>,
     <<JObj([count |-> JNum(1), device_code |-> JNum(168)])>>,
     <<JObj([count |-> JNum(2)])>>,
     <<JObj([count |-> JNum(1), device_code |-> JNum(144)]),
       JObj([count |-> JNum(1), device_code |-> JNum(168)])>>,
     <<JObj([count |-> JNum(0)])>>}

ReadWordsParams ==
    LET base == {[start_addr |-> JNum(0), device_code |-> JNum(c), count |-> JNum(2)] :
                     c \in DeviceCodes}
                \cup {[start_addr |-> JNum(0), count |-> JNum(2)],
                      [start_addr |-> JNum(0), device_code |-> JNum(168),
                       count |-> JNum(65536)],
                      [start_addr |-> JNum(16777216), device_code |-> JNum(168),
                       count |-> JNum(2)]}
    IN base \cup {map_insert(b, "data_blocks", JArr(d)) : b \in base, d \in BlockDescriptors}

\* the data of a response to read_words: the word 0x1234, the words 0x1234 and 0x8001
WordResponses == {<<52, 18>>, <<52, 18, 1, 128>>}

ParamsOf(spec) ==
    IF spec.id = "read_words" THEN ReadWordsParams
    ELSE IF spec.id = "write_blocks"
    THEN {[bit_blocks |-> JArr(<<JObj([start_addr |-> JNum(0), device_code |-> JNum(c),
                                       count |-> JNum(1)])>>)] : c \in DeviceCodes}
         \cup {[word_blocks |-> JArr(<<JObj([start_addr |-> JNum(0), device_code |-> JNum(c),
                                             count |-> JNum(1)])>>)] : c \in DeviceCodes}
    ELSE {[payload |-> JStr(b)] : b \in PayloadBytes}
         \cup {[payload |-> ArrayOf(b)] : b \in PayloadBytes}
         \cup {[payload |-> JArr(<<JNum(300)>>)]}

NoCdResult == [ok |-> FALSE, err |-> "not run"]

CdInit ==
    /\ cd_pc = "build"
    /\ \E spec \in CommandSpecs :
          /\ cd_spec = spec
          /\ cd_params \in ParamsOf(spec)
    /\ cd_series \in {None, Some("Q"), Some("R")}
    /\ cd_req = NoCdResult
    /\ cd_bytes = <<>>
    /\ cd_resp = NoCdResult

\* spec.build_request(&params, plc_series)
CdBuildRequest ==
    /\ cd_pc = "build"
    /\ cd_req' = build_request(cd_spec, cd_params, cd_series)
    /\ cd_pc' = IF cd_req'.ok /\ cd_spec.response_entries # <<>> THEN "sent" ELSE "done"
    /\ UNCHANGED <<cd_spec, cd_params, cd_series, cd_bytes, cd_resp, notCd>>

\* the peer answers with the data of its response
CdAnswer ==
    /\ cd_pc = "sent"
    /\ cd_bytes' \in (IF cd_spec.id = "echo" THEN PayloadBytes ELSE WordResponses) \cup {<<>>}
    /\ cd_pc' = "parse"
    /\ UNCHANGED <<cd_spec, cd_params, cd_series, cd_req, cd_resp, notCd>>

\* spec.parse_response(&params, &response.data)
CdParseResponse ==
    /\ cd_pc = "parse"
    /\ cd_resp' = parse_response(cd_spec, cd_params, cd_bytes)
    /\ cd_pc' = "done"
    /\ UNCHANGED <<cd_spec, cd_params, cd_series, cd_req, cd_bytes, notCd>>

----------------------------------------------------------------------------
(* mc_client.rs: McClient::echo *)

notEc == <<sioVars, poolVars, udpVars, clVars, serVars, rqVars, regVars, devVars, cdVars, frVars>>

\* the longest echo payload: (1..=960).contains(&len)
EchoMaxLen == 960

RepeatByte(b, n) == [i \in 1..n |-> b]

\* payloads handed to echo: "", "A", 960 and 961 times "A", "abcdef012345", "12G4", "0 "
EchoPayloads ==
    {<<>>, <<65>>, RepeatByte(65, EchoMaxLen), RepeatByte(65, EchoMaxLen + 1),
     <<97, 98, 99, 100, 101, 102, 48, 49, 50, 51, 52, 53>>, <<49, 50, 71, 52>>, <<48, 32>>}

\* the mutant of the length check: no upper end
echo_len_in_range_no_max(len) == 1 <= len

\* (1..=960).contains(&len)
echo_len_in_range(len) == 1 <= len /\ len <= EchoMaxLen

\* bytes.iter().all(|&b| b.is_ascii_digit() || A..=F || a..=f)
echo_chars_allowed(bytes) == \A i \in 1..Len(bytes) : is_ascii_hex(bytes[i])

\* 0x0619u16.to_le_bytes(), 0x0000u16.to_le_bytes(), then the payload
echo_request_data(bytes) == to_le_bytes(1561) \o to_le_bytes(0) \o bytes

\* String::from_utf8 on the data of the model, whose bytes over 0x7F are 0xFF only
is_utf8(bytes) == \A i \in 1..Len(bytes) : bytes[i] < 128

EcNoResult == [kind |-> "none"]
EcOk(s) == [kind |-> "ok", s |-> s]
EcErr(why) == [kind |-> "err", why |-> why]

\* the data a peer puts in its response: the payload echoed, "G1", "1g", the byte 0xFF
EchoAnswerData(sent) == {sent, <<71, 49>>, <<49, 103>>, <<255>>}

\* the response frame of the peer in the dialect of the request
EchoResponse(format, serial, end_code, data) ==
    IF format = MC4E THEN Mc4eResponse(serial, AccessRouteDefault, end_code, data)
    ELSE Mc3eResponse(<<208, 0>>, AccessRouteDefault, end_code, data)

EcInit ==
    /\ ec_pc = "call"
    /\ \E text \in EchoPayloads, format \in {MC4E, MC3E}, attempts \in 1..MaxAttempts,
          prior \in PriorSerials :
          ec = [payload |-> text, format |-> format, attempts |-> attempts,
                counter |-> 1 + prior, serials |-> <<>>, frame |-> None, attempt |-> 0,
                last_err |-> None, buf |-> <<>>]
    /\ ec_log = <<>>
    /\ ec_result = EcNoResult

\* echo up to its await: the two checks, then McRequest::new() (which draws a serial),
\* with_access_route, try_with_request_data and build_with_format
EcCall ==
    /\ ec_pc = "call"
    /\ LET bytes == ec.payload
           request_data == echo_request_data(bytes)
           serial == serial_of_prev(ec.counter)
           mc_req == try_with_request_data(
                         with_access_route(McRequest_new(serial), AccessRouteDefault),
                         request_data)
       IN IF ~echo_len_in_range(Len(bytes))
          THEN /\ ec_result' = EcErr("echo payload length out of range")
               /\ ec_pc' = "done"
               /\ UNCHANGED ec
          ELSE IF ~echo_chars_allowed(bytes)
          THEN /\ ec_result' = EcErr("echo payload contains invalid characters")
               /\ ec_pc' = "done"
               /\ UNCHANGED ec
          ELSE IF ~RequestDataFits(Len(request_data))
          THEN /\ ec_result' = EcErr("request_data too large to fit into u16")
               /\ ec_pc' = "done"
               /\ ec' = [ec EXCEPT !.counter = next_counter(@),
                                   !.serials = Append(@, serial)]
          ELSE /\ ec' = [ec EXCEPT !.counter = next_counter(@),
                                   !.serials = Append(@, serial),
                                   !.frame = Some(build_mc_payload_with_format(mc_req,
                                                                               ec.format)),
                                   !.attempt = 1]
               /\ ec_pc' = "send"
               /\ UNCHANGED ec_result
    /\ UNCHANGED <<ec_log, notEc>>

\* an attempt of send_and_recv_with_retry: the transport gets the frame and returns one
EcAttemptOk ==
    /\ ec_pc = "send"
    /\ ec.attempt <= ec.attempts
    /\ \E data \in EchoAnswerData(ec.payload), end_code \in {0, EndCodeErr} :
          ec' = [ec EXCEPT !.buf = EchoResponse(ec.format, ec.serials[1], end_code, data)]
    /\ ec_log' = Append(ec_log, ec.frame[1])
    /\ ec_pc' = "parse"
    /\ UNCHANGED <<ec_result, notEc>>

\* an attempt fails: the last one ends the loop, any other is followed by the next
EcAttemptErr ==
    /\ ec_pc = "send"
    /\ ec.attempt <= ec.attempts
    /\ \E e \in TransportErrs :
          /\ ec_log' = Append(ec_log, ec.frame[1])
          /\ IF LastAttempt(ec.attempt, ec.attempts)
             THEN /\ ec_pc' = "done"
                  /\ ec_result' = EcErr(e)
                  /\ ec' = [ec EXCEPT !.last_err = Some(e)]
             ELSE /\ ec' = [ec EXCEPT !.last_err = Some(e), !.attempt = @ + 1]
                  /\ UNCHANGED <<ec_pc, ec_result>>
    /\ UNCHANGED notEc

\* McResponse::try_new(&buf)?, check_response_end_code(&response)?, String::from_utf8
EcFinish ==
    /\ ec_pc = "parse"
    /\ LET response == parse_mc_payload(ec.buf) IN
       IF ~response.ok THEN ec_result' = EcErr(response.err)
       ELSE IF EndCodeFails(response) THEN ec_result' = EcErr("device end code")
       ELSE IF is_utf8(response.data) THEN ec_result' = EcOk(response.data)
       ELSE ec_result' = EcErr("echo response not valid UTF-8")
    /\ ec_pc' = "done"
    /\ UNCHANGED <<ec, ec_log, notEc>>

----------------------------------------------------------------------------
(* mc_frame.rs: parse_frame on an extended frame that arrives whole or cut short *)

notFr == <<sioVars, poolVars, udpVars, clVars, serVars, rqVars, regVars, devVars, cdVars, ecVars>>

\* the request data of the frames: none, one word, two words
FrameBodies == {<<>>, Word1234, <<52, 18, 120, 86>>}

\* extended frames with either subheader, two routes, end code zero and non-zero
WholeFrames ==
    {sub \o drain(Mc4eResponse(SerialMine, ar, code, data), 2) :
        sub \in {MC_SUBHEADER_REQUEST, MC_SUBHEADER_RESPONSE},
        ar \in {AccessRouteDefault, RouteZero},
        code \in {0, EndCodeErr},
        data \in FrameBodies}

FrNoResult == [ok |-> FALSE, err |-> "not parsed"]

FrInit ==
    /\ fr_pc = "given"
    /\ fr_payload \in WholeFrames
    /\ fr_result = FrNoResult

\* the frame reaches the parser with its header whole and its body cut short
FrCut ==
    /\ fr_pc = "given"
    /\ \E n \in 15..(Len(fr_payload) - 1) : fr_payload' = SubSeq(fr_payload, 1, n)
    /\ fr_pc' = "cut"
    /\ UNCHANGED <<fr_result, notFr>>

\* parse_frame(payload)
FrParseFrame ==
    /\ fr_pc \in {"given", "cut"}
    /\ fr_result' = parse_frame(fr_payload)
    /\ fr_pc' = "parsed"
    /\ UNCHANGED <<fr_payload, notFr>>

----------------------------------------------------------------------------
(* The parts a specification does not run stay as they are here *)

PoolIdle ==
    /\ pc = <<>> /\ target = <<>> /\ mu = <<>> /\ cached = <<>> /\ addrs = <<>>
    /\ conn_map = <<>>
    /\ mutexes = <<>> /\ map_lock = 0 /\ now = 0 /\ next_conn = 0 /\ ret = <<>>
    /\ calls_left = <<>>

UdpIdle ==
    /\ udp_pc = "idle" /\ udp_payload = <<>> /\ net = <<>> /\ udp_buf_len = 0 /\ remotes = 0
    /\ attempt = 0 /\ sends = 0 /\ udp_result = [kind |-> "none"] /\ udp_log = <<>>

ClIdle == cl_pc = "idle" /\ cl = <<>> /\ cl_log = <<>> /\ cl_result = ClNoResult

SerIdle ==
    SERIAL_COUNTER = 1 /\ ser_prior = 0 /\ ser_pc = <<>> /\ ser_v = <<>> /\ issued = <<>>

RqIdle ==
    rq_pc = "idle" /\ rq = <<>> /\ rq_log = <<>> /\ rq_frame = <<>> /\ rq_back = <<>>

RegIdle ==
    /\ GLOBAL_COMMAND_REGISTRY = <<>> /\ DEVICE_OVERRIDES = <<>> /\ ERROR_REGISTRY = <<>>
    /\ th = <<>> /\ reg_log = <<>> /\ set_log = <<>> /\ err_applied = <<>>

DevIdle ==
    dev_pc = "idle" /\ dev_in = <<>> /\ dev_text = <<>> /\ dev_out = <<>>

CdIdle ==
    cd_pc = "idle" /\ cd_spec = <<>> /\ cd_params = <<>> /\ cd_series = <<>> /\ cd_req = <<>> /\ cd_bytes = <<>> /\ cd_resp = <<>>

EcIdle ==
    ec_pc = "idle" /\ ec = <<>> /\ ec_log = <<>> /\ ec_result = <<>>

FrIdle ==
    fr_pc = "idle" /\ fr_payload = <<>> /\ fr_result = <<>>

----------------------------------------------------------------------------
(* perform_stream_io on one stream *)

InitStream == SioInit /\ PoolIdle /\ UdpIdle /\ ClIdle /\ SerIdle /\ RqIdle /\ RegIdle /\ DevIdle /\ CdIdle /\ EcIdle /\ FrIdle

NextStream == SioWrite \/ SioReadSome \/ SioReadClosed \/ SioReadErr \/ SioScan

SpecStream == InitStream /\ [][NextStream]_vars

\* the same reader against a peer that keeps sending. Every step of the reader is taken
\* when it stays possible; tokio_timeout(dur, stream.read(..)) is armed anew for each
\* read, so the timer (SioReadErr) is only sure to fire while a read stays pending.
InitStreamLive ==
    /\ SioInit
    /\ wire \in StrayFrames \cup {<<>>}
    /\ PoolIdle /\ UdpIdle /\ ClIdle /\ SerIdle /\ RqIdle /\ RegIdle
    /\ DevIdle /\ CdIdle /\ EcIdle /\ FrIdle

NextStreamLive ==
    SioWrite \/ SioReadSome \/ SioReadClosed \/ SioReadErr \/ SioScan \/ SioPeerSends

SpecStreamLive ==
    /\ InitStreamLive
    /\ [][NextStreamLive]_vars
    /\ WF_vars(SioWrite)
    /\ WF_vars(SioReadSome)
    /\ WF_vars(SioScan)
    /\ WF_vars(SioReadErr)

----------------------------------------------------------------------------
(* Claims about perform_stream_io *)

\* everything the peer sends on this stream, read or not yet read
WholeWire == sio_log.delivered \o wire

\* a complete frame with a serial other than the expected one heads the buffer
MismatchAtHead ==
    LET d == detect_frame(buf) IN
    /\ sio_pc = "scan"
    /\ d.kind = "frame"
    /\ d.frame_len > 0 /\ d.frame_len <= MAX_FRAME_LEN /\ Len(buf) >= d.frame_len
    /\ unwrap_or(d.serial, 0) # ExpectedSerial(payload)

C2_Returned ==
    (sio_result.kind = "ok" /\ ExpectedSerial(payload) # 0)
        => sio_result.serial = ExpectedSerial(payload)

C2_Dropped ==
    (ExpectedSerial(payload) # 0 /\ MismatchAtHead)
        => /\ buf' = drain(buf, detect_frame(buf).frame_len)
           /\ sio_pc' = "scan"
           /\ sio_result' = SioNoResult

\* C2: with a non-zero outgoing serial s, a frame handed to the caller was detected
\* with serial s, and a complete frame detected with another serial is taken out of
\* the buffer whole while the reader goes on scanning and reports no error.
C2_SerialFilter == []C2_Returned /\ [][C2_Dropped]_vars

\* a stray frame was dropped and then the matching frame returned
C2_Witness ==
    /\ sio_result.kind = "ok"
    /\ ExpectedSerial(payload) # 0
    /\ sio_log.dropped_frames >= 1

\* the stream carries one garbage byte and then one whole extended frame with the
\* outgoing serial
GarbageThenFrame ==
    /\ ExpectedSerial(payload) # 0
    /\ Len(WholeWire) >= 16
    /\ Tail(WholeWire) \in Mc4eFrames
    /\ from_le_bytes(WholeWire[4], WholeWire[5]) = ExpectedSerial(payload)

\* C3: one garbage byte, then a whole valid extended frame with the outgoing serial:
\* the reader returns exactly that frame and leaves an empty buffer, so it is never
\* back waiting for bytes once all of them are read.
C3_FrameResync ==
    GarbageThenFrame
        => /\ sio_result.kind = "ok" => (sio_result.frame = Tail(WholeWire) /\ buf = <<>>)
           /\ ~(sio_pc = "read" /\ wire = <<>>)

\* the resync of C3 succeeded
C3_Resynced == GarbageThenFrame /\ sio_result.kind = "ok"

\* the peer sends one whole extended frame with the outgoing serial and nothing else
OneMatchingFrame ==
    /\ ExpectedSerial(payload) # 0
    /\ WholeWire \in Mc4eFrames
    /\ from_le_bytes(WholeWire[3], WholeWire[4]) = ExpectedSerial(payload)

\* C24: however the bytes of one valid extended frame with the matching serial are
\* split across reads, no byte is taken out of the buffer before the frame is returned,
\* a returned frame is exactly that frame, and the reader is not left waiting for more
\* once every byte has been read.
C24_ChunkingIndependent ==
    OneMatchingFrame
        => /\ sio_log.skipped_bytes = 0
           /\ sio_log.dropped_frames = 0
           /\ sio_result.kind = "ok" => sio_result.frame = WholeWire
           /\ ~(sio_pc = "read" /\ wire = <<>>)

\* a compact request is awaited and the peer sends one whole compact response
CompactExchange ==
    /\ payload = build_mc_payload_with_format(McRequest_new(1), MC3E)
    /\ WholeWire = Mc3eResponse(<<208, 0>>, AccessRouteDefault, 0, Word1234)

\* C29: a compact request carries no serial, so nothing of a well-formed compact
\* response that arrives for it is discarded as a serial mismatch, and the frame handed
\* to the caller is that response.
C29_CompactNotSerialMatched ==
    CompactExchange
        => /\ sio_log.dropped_frames = 0
           /\ sio_result.kind = "ok" => sio_result.frame = WholeWire

\* C26: with a timeout set, the exchange returns in the end, with a frame or an error,
\* also when the peer keeps sending frames that never match.
C26_EventuallyReturns == <>(sio_pc = "done")

----------------------------------------------------------------------------
(* concurrent send_and_recv_tcp calls *)

InitPool == PoolInit /\ SioIdle /\ UdpIdle /\ ClIdle /\ SerIdle /\ RqIdle /\ RegIdle /\ DevIdle /\ CdIdle /\ EcIdle /\ FrIdle

NextPool ==
    \/ \E p \in Tasks : Call(p)
    \/ \E p \in Tasks : ResolveOk(p)
    \/ \E p \in Tasks : ResolveErr(p)
    \/ \E p \in Tasks : MapLock(p)
    \/ \E p \in Tasks : MapLookup(p)
    \/ \E p \in Tasks : LockSlot(p)
    \/ \E p \in Tasks : ReuseIoOk(p)
    \/ \E p \in Tasks : ReuseIoErr(p)
    \/ \E p \in Tasks : ConnectOk(p)
    \/ \E p \in Tasks : ConnectErr(p)
    \/ \E p \in Tasks : AddrsExhausted(p)
    \/ \E p \in Tasks : FreshIoOk(p)
    \/ \E p \in Tasks : FreshIoErr(p)
    \/ \E p \in Tasks : Dropped(p)
    \/ Tick

SpecPool == InitPool /\ [][NextPool]_vars

----------------------------------------------------------------------------
(* Claims about the pool *)

InStreamIo == {"reuse_io", "fresh_io"}

\* C1: of the calls for one "host:port" string, at most one is in its stream I/O at any
\* time, however the calls interleave and whichever of them are dropped.
C1_OneExchangePerTarget ==
    \A t \in Targets :
        Cardinality({p \in Tasks : pc[p] \in InStreamIo /\ target[p] = t}) <= 1

\* one call is in its exchange while another call for the same target waits for the slot
C1_Witness ==
    \E p, q \in Tasks :
        /\ p # q /\ target[p] = target[q]
        /\ pc[p] \in InStreamIo /\ pc[q] = "slot_lock"

\* C4: when a call has returned, the target's slot holds a connection exactly if the
\* call returned Ok, and that connection's last-used instant is the instant of return.
C4_SlotIffOk ==
    \A p \in Tasks :
        ret[p].kind # "none"
            => /\ ret[p].holds <=> ret[p].kind = "ok"
               /\ ret[p].kind = "ok" => ret[p].stamped

\* C5: the map lock is held only inside the lookup block, never at an await; so a call
\* waiting for its slot is held up only by a call for the same target, and a call
\* waiting for the map only by a call inside the lookup block.
C5_MapLockNotHeldAcrossAwait ==
    /\ map_lock # 0 => pc[map_lock] = "in_map"
    /\ \A p \in Tasks :
          (pc[p] = "slot_lock" /\ \A q \in Tasks \ {p} :
                                     pc[q] \in GuardHeld => target[q] # target[p])
              => mutexes[mu[p]].holder = 0
    /\ \A p \in Tasks :
          (pc[p] = "map_lock" /\ \A q \in Tasks : pc[q] # "in_map") => map_lock = 0

\* a call is in its exchange with one target while another has taken another target's
\* slot and is in its own exchange
C5_Witness ==
    \E p, q \in Tasks :
        /\ target[p] # target[q]
        /\ pc[p] \in InStreamIo /\ pc[q] \in InStreamIo

\* C23: a call that fails because a deadline elapsed returns the Timeout variant, one that
\* fails because resolve, connect, read or write failed returns the Io variant; no
\* transport failure is returned as a Protocol error.
C23_TransportErrorVariants ==
    \A p \in Tasks :
        ret[p].kind = "err" =>
            /\ ret[p].error.variant # "Protocol"
            /\ ret[p].why = "connect timeout/error" => ret[p].error.variant = "Timeout"
            /\ ret[p].why \in {"bad address", "connect error"} => ret[p].error.variant = "Io"

\* the guard of the slot is granted to p and the slot's content is taken out
TakesSlot(p) == pc[p] = "slot_lock" /\ pc'[p] \in {"reuse_io", "connect"}

\* a connection idle beyond the window is dropped unused, and the call goes on to connect
C25_StaleDropped(p) ==
    LET slot == mutexes[mu[p]].slot IN
    (TakesSlot(p) /\ slot # None /\ now - slot[1].last_used > IdleSecs)
        => /\ pc'[p] = "connect"
           /\ cached'[p] = 0
           /\ mutexes'[mu[p]].slot = None

\* a connection idle for less than the window is the one tried, and none is opened
C25_FreshTried(p) ==
    LET slot == mutexes[mu[p]].slot IN
    (TakesSlot(p) /\ slot # None /\ now - slot[1].last_used < IdleSecs)
        => /\ pc'[p] = "reuse_io"
           /\ cached'[p] = slot[1].conn
           /\ next_conn' = next_conn

\* the exchange on the reused connection succeeds: it is that connection that carried
\* the request and that goes back into the slot, and no other was opened
C25_ReuseKeepsConn(p) ==
    (pc[p] = "reuse_io" /\ ret'[p].kind = "ok")
        => /\ ret'[p].conn = cached[p]
           /\ next_conn' = next_conn
           /\ mutexes'[mu[p]].slot = Some([conn |-> cached[p], last_used |-> now])

\* C25: a pooled connection idle beyond the window is dropped and a fresh connection is
\* made; one idle for less than the window is tried before any connection is opened, and
\* when the exchange on it succeeds the operation used that single connection.
C25_IdleWindow ==
    [][\A p \in Tasks : C25_StaleDropped(p) /\ C25_FreshTried(p) /\ C25_ReuseKeepsConn(p)]_vars

\* two tasks' successful operations to one target, both begun and ended while less time
\* than the window has passed since the start
WithinWindow(p, q) ==
    /\ p # q
    /\ ret[p].kind = "ok" /\ ret[q].kind = "ok"
    /\ target[p] = target[q]
    /\ now < IdleSecs

\* C25 as stated: any two successful operations to the same target within the window
\* were carried by a single connection.
C25_WithinWindowOneConnection ==
    \A p, q \in Tasks : WithinWindow(p, q) => ret[p].conn = ret[q].conn

\* the second of two successful operations reused the connection the first one left
C25_Witness ==
    \E p, q \in Tasks :
        /\ p # q
        /\ ret[p].kind = "ok" /\ ret[q].kind = "ok"
        /\ target[p] = target[q]
        /\ ret[p].conn = ret[q].conn

----------------------------------------------------------------------------
(* send_and_recv_udp on the sockets of one call *)

InitUdp == UdpInit /\ SioIdle /\ PoolIdle /\ ClIdle /\ SerIdle /\ RqIdle /\ RegIdle /\ DevIdle /\ CdIdle /\ EcIdle /\ FrIdle

NextUdp ==
    \/ UdpResolve
    \/ UdpBind
    \/ UdpGiveUp
    \/ UdpSend
    \/ UdpNextRemote
    \/ UdpRecvPacket
    \/ UdpRecvErr

SpecUdp == InitUdp /\ [][NextUdp]_vars

\* one socket at most per resolved address, and on each at most the configured number
\* of sends
C27_SendsBounded ==
    /\ udp_log.bound + remotes <= udp_log.resolved + (IF udp_pc = "bind" THEN 0 ELSE 1)
    /\ udp_log.sent_here <= UdpRecvAttempts
    /\ sends <= UdpRecvAttempts * udp_log.bound

\* a send that follows another on the same socket comes after a failed send or a failed
\* receive, which is what attempt counts
C27_ResendAfterFailure ==
    (sends' # sends /\ udp_log.sent_here > 0)
        => /\ udp_pc = "send"
           /\ attempt = udp_log.sent_here
           /\ udp_log'.bound = udp_log.bound

\* discarding a datagram sends nothing and leaves the call receiving on the same socket
C27_DiscardKeepsReceiving ==
    udp_log'.discarded # udp_log.discarded
        => /\ sends' = sends
           /\ attempt' = attempt
           /\ udp_pc' = "recv"
           /\ udp_log'.bound = udp_log.bound

\* when the call is over without a frame it returned a protocol error, and unless the
\* name did not resolve every socket it could bind was used for all its attempts
C27_ErrorAtEnd ==
    (udp_pc = "done" /\ udp_result.kind # "ok")
        => /\ udp_result \in {UdpErr("bad address"), UdpErr("failed to send UDP")}
           /\ udp_result = UdpErr("failed to send UDP")
                 => (remotes = 0 /\ sends = UdpRecvAttempts * udp_log.bound)

\* C27: the payload is sent at most UdpRecvAttempts times per resolved address, all on
\* the one socket bound for it; it is sent again only after a send or receive failure,
\* never because a mismatching datagram was discarded; and the call returns a protocol
\* error when every attempt has failed.
C27_UdpAttempts ==
    /\ [](C27_SendsBounded /\ C27_ErrorAtEnd)
    /\ [][C27_ResendAfterFailure /\ C27_DiscardKeepsReceiving]_vars

\* every attempt failed, one of them after a mismatching datagram had been discarded
C27_Witness ==
    /\ udp_result = UdpErr("failed to send UDP")
    /\ udp_log.bound >= 1
    /\ sends = UdpRecvAttempts * udp_log.bound
    /\ udp_log.discarded >= 1

----------------------------------------------------------------------------
(* one client operation *)

InitClient == ClInit /\ SioIdle /\ PoolIdle /\ UdpIdle /\ SerIdle /\ RqIdle /\ RegIdle /\ DevIdle /\ CdIdle /\ EcIdle /\ FrIdle

NextClient ==
    \/ ClRegistry
    \/ ClBuild
    \/ ClFrame
    \/ ClAttemptOk
    \/ ClAttemptErr
    \/ ClBackoff
    \/ ClLoopOver
    \/ ClParse

SpecClient == InitClient /\ [][NextClient]_vars

----------------------------------------------------------------------------
(* Claims about the client operation *)

CallsIn(log) == {i \in 1..Len(log) : log[i].ev = "call"}

\* C7: send_and_recv_with_retry invokes the transport at most the configured number of
\* times, stops at the first Ok and hands that frame on, sleeps only after a failed
\* attempt that another attempt follows, and when every attempt failed returns the error
\* of the last one.
C7_RetryLoop ==
    LET n == Len(cl_log) IN
    /\ Cardinality(CallsIn(cl_log)) <= cl.attempts
    /\ \A i \in 1..n : cl_log[i].res = "ok" => i = n /\ cl.answer # NoAnswer
    /\ \A i \in 1..n :
          cl_log[i].ev = "sleep" =>
             /\ i > 1 /\ cl_log[i - 1].ev = "call" /\ cl_log[i - 1].res # "ok"
             /\ IF i < n THEN cl_log[i + 1].ev = "call"
                ELSE cl_pc = "send" /\ cl.attempt <= cl.attempts
    /\ (cl_pc = "done" /\ n > 0 /\ cl_log[n].res # "ok") =>
          /\ Cardinality(CallsIn(cl_log)) = cl.attempts
          /\ cl_log[n].ev = "call"
          /\ cl_result = ClErr("transport", cl_log[n].res)

\* two attempts failed for different reasons, one sleep between them, the second
\* reason returned
C7_Witness ==
    /\ cl_pc = "done"
    /\ cl_log = <<CallEvent("connect error"), SleepEvent(100), CallEvent("failed to send")>>
    /\ cl_result = ClErr("transport", "failed to send")

\* C8: when build_request fails or the request data does not fit the frame's length
\* field the operation returns the error and the transport is never invoked; when the
\* received frame does not parse the error is returned and nothing is sent after it.
C8_NoSendOnBuildError ==
    /\ (cl.build \in BuildErrs \/ (cl.build = "ok" /\ cl.body_len + 2 > 65535)) =>
          /\ cl_log = <<>> /\ cl.calls = 0
          /\ cl_pc \in {"frame", "done"}
          /\ cl_pc = "done" => cl_result.kind = "err" /\ cl_result.from \in {"build", "frame"}
    /\ (cl_pc = "done" /\ cl.answer # NoAnswer /\ ~parse_mc_payload(cl.answer.bytes).ok) =>
          /\ cl_result.kind = "err" /\ cl_result.from = "parse"
          /\ cl_log[Len(cl_log)].res = "ok"
          /\ \A i \in 1..(Len(cl_log) - 1) : cl_log[i].res # "ok"

\* request data of 65534 bytes was refused and nothing was sent
C8_Witness ==
    /\ cl_pc = "done"
    /\ cl.body_len = 65534
    /\ cl_result = ClErr("frame", "request_data too large to fit into u16")
    /\ cl.calls = 0

\* C9: in every dialect a response whose end code is not 0 makes the operation return
\* the protocol error that names the code, with no data and no further attempt.
C9_EndCodeIsError ==
    (cl_pc = "done" /\ cl.answer.dialect \in {"extended", "compact", "bare"}
        /\ cl.answer.end_code # 0) =>
       /\ cl_result = ClErr("end_code", cl.answer.end_code)
       /\ cl_log[Len(cl_log)].res = "ok"

----------------------------------------------------------------------------
(* concurrent McRequest::new() calls *)

InitSerial == SerInit /\ SioIdle /\ PoolIdle /\ UdpIdle /\ ClIdle /\ RqIdle /\ RegIdle /\ DevIdle /\ CdIdle /\ EcIdle /\ FrIdle

NextSerial ==
    \/ \E p \in Callers : SerLoad(p)
    \/ \E p \in Callers : SerCasOk(p)
    \/ \E p \in Callers : SerCasFail(p)

SpecSerial == InitSerial /\ [][NextSerial]_vars

----------------------------------------------------------------------------
(* Claims about the serials *)

\* C10: the first serial a process issues is 1, each next serial is the one before plus
\* one, and the serial after 0xFFFF is 1.
C10_SerialSequence ==
    /\ (ser_prior = 0 /\ Len(issued) >= 1) => issued[1] = 1
    /\ \A i \in 1..(Len(issued) - 1) :
          issued[i + 1] = IF issued[i] = 65535 THEN 1 ELSE issued[i] + 1

\* C11: however the callers interleave, no serial issued is 0 and the serials issued
\* in a run, far fewer than 65535 of them, are pairwise distinct.
C11_SerialsDistinct ==
    /\ \A i \in 1..Len(issued) : issued[i] # 0
    /\ \A i, j \in 1..Len(issued) : i # j => issued[i] # issued[j]

\* a caller holds a value of the counter another caller has moved on from since, and
\* the run passed the wrap at 0xFFFF
C11_Witness ==
    /\ \E p \in Callers : ser_pc[p] = "cas" /\ ser_v[p] # SERIAL_COUNTER
    /\ Len(issued) >= 2
    /\ issued[1] = 65535

----------------------------------------------------------------------------
(* a request assembled and built *)

InitBuild == RqInit /\ SioIdle /\ PoolIdle /\ UdpIdle /\ ClIdle /\ SerIdle /\ RegIdle /\ DevIdle /\ CdIdle /\ EcIdle /\ FrIdle

NextBuild ==
    \/ RqWithSubheader
    \/ RqWithAccessRoute
    \/ RqWithSerialNumber
    \/ RqWithMonitoringTimer
    \/ RqTryWithRequestData
    \/ RqBuild
    \/ RqTryFromPayload

SpecBuild == InitBuild /\ [][NextBuild]_vars

\* C30: reading back the bytes a request was built into succeeds and gives the
\* request's subheader, access route, length field, monitoring timer and request data,
\* and in the extended dialect its serial number.
C30_BuildParseInverse ==
    rq_pc = "parsed"
        => /\ rq_back.ok
           /\ rq_back.subheader = rq.subheader
           /\ rq_back.access_route = rq.access_route
           /\ rq_back.request_data_len = rq.request_data_len
           /\ rq_back.monitoring_timer = rq.monitoring_timer
           /\ rq_back.request_data = rq.request_data
           /\ rq_frame.format = MC4E => rq_back.serial_number = rq.serial_number

----------------------------------------------------------------------------
(* Claims about built frames *)

Called(method) == \E i \in 1..Len(rq_log) : rq_log[i] = method

\* the request as the client operations make it: the subheader of new(), the request
\* data given through try_with_request_data
AsClientBuilds ==
    /\ rq_pc = "built"
    /\ Called("try_with_request_data")
    /\ ~Called("with_subheader")

\* C12: detect_frame of a built frame, extended or compact, reports a frame whose
\* length is the number of bytes built; stated here for the requests the claim is
\* surest to include, those with the subheader of new() whose request data went
\* through try_with_request_data.
C12_DetectBuiltLength ==
    AsClientBuilds =>
        LET d == detect_frame(rq_frame.bytes) IN
        d.kind = "frame" /\ d.frame_len = Len(rq_frame.bytes)

\* the length field of a built frame: bytes 11..12 of the extended layout, 7..8 of the
\* compact one
LengthField(f) ==
    IF f.format = MC4E THEN from_le_bytes(f.bytes[12], f.bytes[13])
    ELSE from_le_bytes(f.bytes[8], f.bytes[9])

\* C13: whatever builder calls made the request, with or without
\* try_with_request_data among them, the length field of the built frame is the number
\* of body bytes plus 2.
C13_LengthField ==
    rq_pc = "built" => LengthField(rq_frame) = Len(rq.request_data) + 2

----------------------------------------------------------------------------
(* threads that set and fill the registries *)

InitRegistry == RegInit /\ SioIdle /\ PoolIdle /\ UdpIdle /\ ClIdle /\ SerIdle /\ RqIdle /\ DevIdle /\ CdIdle /\ EcIdle /\ FrIdle

NextRegistry ==
    \/ \E t \in Threads : RegSetGlobal(t)
    \/ \E t \in Threads : RegRegisterOverrides(t)
    \/ \E t \in Threads : RegLoadAndSet(t)
    \/ \E t \in Threads : RegOrMerge(t)
    \/ \E t \in Threads : RegErrSet(t)
    \/ \E t \in Threads : RegErrMerge(t)

SpecRegistry == InitRegistry /\ [][NextRegistry]_vars


----------------------------------------------------------------------------
(* Claims about the registries *)

AttemptsOn(cell) == {i \in 1..Len(set_log) : set_log[i].cell = cell}
WinnersOn(cell) == {i \in AttemptsOn(cell) : set_log[i].ok}

CellOf(cell) == IF cell = "commands" THEN GLOBAL_COMMAND_REGISTRY ELSE DEVICE_OVERRIDES

SetOnce(cell) ==
    /\ AttemptsOn(cell) = {} => CellOf(cell) = None
    /\ AttemptsOn(cell) # {} =>
          /\ Cardinality(WinnersOn(cell)) = 1
          /\ \A i \in WinnersOn(cell) :
                /\ CellOf(cell) = Some(set_log[i].content)
                /\ \A j \in AttemptsOn(cell) : i <= j

NeverReset ==
    /\ GLOBAL_COMMAND_REGISTRY # None => GLOBAL_COMMAND_REGISTRY' = GLOBAL_COMMAND_REGISTRY
    /\ DEVICE_OVERRIDES # None => DEVICE_OVERRIDES' = DEVICE_OVERRIDES

\* C14: of the attempts to set the command registry, and of those to set the device
\* overrides, exactly one succeeds and every other returns an error; the cell holds the
\* content of the attempt that succeeded and does not change once it is set.
C14_SetOnce == [](SetOnce("commands") /\ SetOnce("overrides")) /\ [][NeverReset]_vars

\* the command registry is set and has refused a later attempt with another content,
\* and the device overrides are set
C14_Witness ==
    /\ \E i, j \in AttemptsOn("commands") :
          /\ set_log[i].ok /\ ~set_log[j].ok
          /\ set_log[i].content # set_log[j].content
    /\ DEVICE_OVERRIDES # None

\* C15: every init_defaults() call returns Ok, whatever set the command registry
\* before it or during it, and the registry in effect is the one the first successful
\* set installed.
C15_InitTolerant ==
    /\ \A i \in 1..Len(reg_log) : reg_log[i].op = "init_defaults" => reg_log[i].ok
    /\ \A i \in WinnersOn("commands") :
          GLOBAL_COMMAND_REGISTRY = Some(set_log[i].content)

\* init_defaults() returned after the application had set its own command registry,
\* which is still the one in effect
C15_Witness ==
    /\ \E i \in 1..Len(reg_log) : reg_log[i].op = "init_defaults" /\ reg_log[i].ok
    /\ \E i \in 1..Len(reg_log) : reg_log[i].op = "McClient::new"
    /\ GLOBAL_COMMAND_REGISTRY = Some("application commands.toml")

\* the entry of code c in the last document applied that has one
RECURSIVE LatestEntry(_, _)
LatestEntry(docs, c) ==
    LET last == docs[Len(docs)]
        hits == {i \in 1..Len(last) : last[i][1] = c}
    IN IF hits # {}
       THEN last[CHOOSE i \in hits : \A j \in hits : j <= i][2]
       ELSE LatestEntry(SubSeq(docs, 1, Len(docs) - 1), c)

CodesOf(doc) == {doc[i][1] : i \in 1..Len(doc)}

\* C16: every code of every document registered so far is in the error registry, and
\* it maps to the entry of the most recent registration that has the code.
C16_MergeKeepsAll ==
    \A k \in 1..Len(err_applied) :
        \A c \in CodesOf(err_applied[k]) :
            /\ ERROR_REGISTRY # None
            /\ c \in DOMAIN ERROR_REGISTRY[1]
            /\ ERROR_REGISTRY[1][c] = LatestEntry(err_applied, c)

\* document A, then document B merged into it: the code they share has B's entry, the
\* code only A has is still there
C16_Witness ==
    /\ err_applied = <<DocA, DocB>>
    /\ ERROR_REGISTRY # None
    /\ ERROR_REGISTRY[1][84] = "format mismatch (B)"
    /\ ERROR_REGISTRY[1][0] = "completed (A)"


----------------------------------------------------------------------------
(* an address written and parsed *)

InitDevice ==
    DevInit /\ SioIdle /\ PoolIdle /\ UdpIdle /\ ClIdle /\ SerIdle /\ RqIdle /\ RegIdle
    /\ CdIdle /\ EcIdle /\ FrIdle

NextDevice == DevFormat \/ DevParse

SpecDevice == InitDevice /\ [][NextDevice]_vars

----------------------------------------------------------------------------
(* Claims about addresses *)

\* C17: the symbol of a catalog device followed by an address of 0..0xFFFFFF written in
\* the device's radix parses to that device and that address, for decimal and for
\* hexadecimal devices.
C17_AddressRoundTrip ==
    (dev_pc = "done" /\ dev_in.addr <= 16777215)
        => dev_out = DevOk(dev_in.device, dev_in.addr)


----------------------------------------------------------------------------
(* the command codec *)

InitCodec ==
    CdInit /\ SioIdle /\ PoolIdle /\ UdpIdle /\ ClIdle /\ SerIdle /\ RqIdle /\ RegIdle
    /\ DevIdle /\ EcIdle /\ FrIdle

NextCodec == CdBuildRequest \/ CdAnswer \/ CdParseResponse

SpecCodec == InitCodec /\ [][NextCodec]_vars

----------------------------------------------------------------------------
(* Claims about the command codec *)

\* the category of the device of the top-level device_code, if it names a device
TopCategory ==
    LET dc == get_u64(cd_params, "device_code")
    IN IF dc = None \/ dc[1] > 255 \/ device_by_code(dc[1]) = None
       THEN None ELSE Some(device_by_code(dc[1])[1].category)

\* C18 as stated: build_request of a command whose device_family is Word, given the
\* top-level device_code of a bit device, does not fail with a family mismatch.
C18_WordFamilyAcceptsBit ==
    (cd_pc = "done" /\ cd_spec.device_family = "Word" /\ TopCategory = Some("Bit"))
        => cd_req.ok

\* C18: build_request of a command whose device_family is Word, given the top-level
\* device_code of a bit device, fails with "requires a word device"; a command whose
\* device_family is Any accepts the same parameters.
C18_WordFamilyRejectsBit ==
    (cd_pc = "done" /\ TopCategory = Some("Bit"))
        => /\ cd_spec.device_family = "Word" => cd_req = CdErr("requires a word device")
           /\ cd_spec.device_family = "Any" => cd_req.ok

C18_Witness ==
    /\ cd_pc = "done"
    /\ cd_spec.id = "read_words"
    /\ cd_spec.device_family = "Word"
    /\ TopCategory = Some("Bit")
    /\ cd_req = CdErr("requires a word device")


\* the bytes of the payload parameter, in whichever form it is given
PayloadGiven ==
    IF "payload" \notin DOMAIN cd_params THEN <<>>
    ELSE IF cd_params.payload.t = "str" THEN cd_params.payload.s
    ELSE [i \in 1..Len(cd_params.payload.a) |-> cd_params.payload.a[i].n]

NonHexIn(bytes) ==
    \E i \in 1..Len(bytes) : bytes[i] \notin (48..57) \cup (65..70) \cup (97..102)

\* C20: build_request fails for an ascii_hex field whose payload, given as a string or as
\* an array of byte values, has a byte outside 0-9A-Fa-f, and parse_response fails for a
\* response whose ascii-hex payload has such a byte.
C20_NonHexRejected ==
    /\ (cd_pc # "build" /\ cd_spec.id = "echo" /\ NonHexIn(PayloadGiven)) => ~cd_req.ok
    /\ (cd_pc = "done" /\ cd_req.ok /\ cd_spec.id = "echo" /\ NonHexIn(cd_bytes))
          => ~cd_resp.ok

\* the block descriptors of the parameters, and those that ask for one word of a bit device
DataBlocks ==
    IF "data_blocks" \in DOMAIN cd_params THEN cd_params.data_blocks.a ELSE <<>>

CodeOfBlock(block) ==
    IF "device_code" \in DOMAIN block.o THEN Some(block.o.device_code.n)
    ELSE IF "device_code" \in DOMAIN cd_params THEN Some(cd_params.device_code.n)
    ELSE None

OneWordOfBitDevice(block) ==
    /\ block.o.count.n = 1
    /\ CodeOfBlock(block) # None
    /\ CodeOfBlock(block)[1] \in {144, 156}

\* the word a block's data starts with, the blocks lying one after another in the bytes
RECURSIVE OffsetOfBlock(_)
OffsetOfBlock(i) == IF i = 1 THEN 0 ELSE OffsetOfBlock(i - 1) + 2 * DataBlocks[i - 1].o.count.n
WordOfBlock(i) == cd_bytes[OffsetOfBlock(i) + 1] + 256 * cd_bytes[OffsetOfBlock(i) + 2]

BitsLsbFirst(w) == [k \in 1..16 |-> [t |-> "bool", b |-> (w \div 2 ^ (k - 1)) % 2 = 1]]

RECURSIVE ExpectedBitBlocks(_)
ExpectedBitBlocks(i) ==
    IF i = 0 THEN <<>>
    ELSE IF OneWordOfBitDevice(DataBlocks[i])
    THEN Append(ExpectedBitBlocks(i - 1), [t |-> "arr", a |-> BitsLsbFirst(WordOfBlock(i))])
    ELSE ExpectedBitBlocks(i - 1)

\* C21: a parsed read_words response has a bit_blocks array exactly when some words-block
\* descriptor has count 1 and the code of a bit device; it then holds, per such block, the
\* 16 bits of the block's word, lowest bit first; when no descriptor is such (a word
\* device, or a count other than 1) the result has no key but data_blocks.
C21_BitBlocksOnlyForBitDevice ==
    (cd_pc = "done" /\ cd_spec.id = "read_words" /\ cd_req.ok /\ cd_resp.ok) =>
        LET wanted == \E i \in 1..Len(DataBlocks) : OneWordOfBitDevice(DataBlocks[i])
        IN /\ ("bit_blocks" \in DOMAIN cd_resp.out) <=> wanted
           /\ wanted => cd_resp.out.bit_blocks.a = ExpectedBitBlocks(Len(DataBlocks))
           /\ DOMAIN cd_resp.out \subseteq {"data_blocks", "bit_blocks"}
           /\ "data_blocks" \in DOMAIN cd_resp.out

C21_Witness ==
    /\ cd_pc = "done" /\ cd_spec.id = "read_words" /\ cd_req.ok /\ cd_resp.ok
    /\ Len(DataBlocks) = 2
    /\ cd_bytes = <<52, 18, 1, 128>>
    /\ "bit_blocks" \in DOMAIN cd_resp.out
    /\ Len(cd_resp.out.bit_blocks.a) = 1
    /\ cd_resp.out.bit_blocks.a[1].a[3].b
    /\ ~cd_resp.out.bit_blocks.a[1].a[1].b

\* a numeric parameter of read_words is too large for the bytes its field is written in:
\* count in 2 bytes, start_addr in 3 (4 for series R), device_code in 1 (2 for series R)
TooWideForField ==
    \/ cd_params.count.n > 65535
    \/ cd_series # Some("R") /\ cd_params.start_addr.n > 16777215
    \/ /\ "device_code" \in DOMAIN cd_params
       /\ cd_params.device_code.n > (IF cd_series = Some("R") THEN 65535 ELSE 255)

\* C22: build_request fails when the value of a numeric parameter does not fit the width
\* of its field; it emits no request with the value cut to the width.
C22_NoSilentTruncation ==
    (cd_pc # "build" /\ cd_spec.id = "read_words" /\ TooWideForField) => ~cd_req.ok

----------------------------------------------------------------------------
(* the echo test *)

InitEcho ==
    EcInit /\ SioIdle /\ PoolIdle /\ UdpIdle /\ ClIdle /\ SerIdle /\ RqIdle /\ RegIdle
    /\ DevIdle /\ CdIdle /\ FrIdle

NextEcho == EcCall \/ EcAttemptOk \/ EcAttemptErr \/ EcFinish

SpecEcho == InitEcho /\ [][NextEcho]_vars

----------------------------------------------------------------------------
(* Claims about echo *)

\* the payload is one echo refuses: its length is outside 1..960 or a byte is no hex digit
EchoRefuses ==
    \/ Len(ec.payload) < 1
    \/ Len(ec.payload) > 960
    \/ \E i \in 1..Len(ec.payload) :
          ec.payload[i] \notin (48..57) \cup (65..70) \cup (97..102)

\* the request data inside a built frame: what follows the header of the dialect
RequestDataIn(frame, format) ==
    SubSeq(frame, (IF format = MC4E THEN 15 ELSE 11) + 1, Len(frame))

\* C19: echo returns an error for a payload whose length is outside 1..960 or that has a
\* byte outside 0-9, A-F, a-f, with no frame built, no serial drawn and the transport not
\* called; any other payload, one of 960 bytes and one of small hex digits included, is
\* built into a frame and every frame handed to the transport carries 19 06 00 00 and the
\* payload as it was given.
C19_EchoValidation ==
    /\ EchoRefuses =>
          /\ ec.frame = None /\ ec.serials = <<>> /\ ec_log = <<>>
          /\ ec_pc \in {"call", "done"}
          /\ ec_pc = "done" => ec_result.kind = "err"
    /\ (~EchoRefuses /\ ec_pc # "call") =>
          /\ ec.frame # None
          /\ Len(ec.serials) = 1
          /\ RequestDataIn(ec.frame[1], ec.format) = <<25, 6, 0, 0>> \o ec.payload
          /\ \A i \in 1..Len(ec_log) : ec_log[i] = ec.frame[1]

C19_Witness ==
    /\ ec_pc = "done"
    /\ Len(ec.payload) = 961
    /\ ec_result = EcErr("echo payload length out of range")
    /\ ec_log = <<>>


----------------------------------------------------------------------------
(* parse_frame on whole and truncated extended frames *)

InitFrame ==
    /\ FrInit
    /\ SioIdle /\ PoolIdle /\ UdpIdle /\ ClIdle /\ SerIdle /\ RqIdle /\ RegIdle
    /\ DevIdle /\ CdIdle /\ EcIdle

NextFrame == FrCut \/ FrParseFrame

SpecFrame == InitFrame /\ [][NextFrame]_vars

\* the length field, the end code and the body bytes the length field declares
DeclaredLen == from_le_bytes(fr_payload[12], fr_payload[13])
EndCodeOf == from_le_bytes(fr_payload[14], fr_payload[15])

\* an extended frame was parsed that carries fewer body bytes than it declares
TruncatedParsed ==
    /\ fr_pc = "parsed"
    /\ IsMc4eHeader(fr_payload)
    /\ DeclaredLen >= 2
    /\ Len(fr_payload) < 15 + (DeclaredLen - 2)

\* C28: a truncated extended frame is accepted when its end code is 0x0000, with the
\* declared data_bytes and data_offset 15, and refused with a length-mismatch error when
\* its end code is not zero.
C28_TruncationByEndCode ==
    TruncatedParsed
        => IF EndCodeOf = 0
           THEN /\ fr_result.ok
                /\ fr_result.data_bytes = DeclaredLen - 2
                /\ fr_result.data_offset = 15
           ELSE fr_result = ParseErr("MC4E payload length mismatch")

====
